---------------------------- MODULE Spec2Model ----------------------------
(***************************************************************************)
(* A model of the sorted column index of tables/index.py (class Index):    *)
(* the two-level sorted structure (sorted / indices), its derived bounds   *)
(* arrays, the last-row buffer, the limits cache, and the operations       *)
(* append, appendLastRow, optimize, search and getLookupRange.             *)
(*                                                                         *)
(* Conventions.  Python arrays are 0-based, TLA+ sequences are 1-based:    *)
(* the Python cell a[k] is the TLA+ element a[k+1].  Row numbers stored in *)
(* indices / indicesLR keep their Python (0-based) values.  The column is  *)
(* an int8 column, so search takes the search_scalar path.  numpy's        *)
(* argsort sorts arrays of at most 16 items by insertion, which is stable; *)
(* every array of the model is that short, so argsort is the stable sort.  *)
(***************************************************************************)
EXTENDS Integers, Sequences, FiniteSets, TLC

VARIABLES
    chunksize, slicesize, blocksize, superblocksize,
    column,
    sorted, indices, ranges, mranges, bounds, abounds, zbounds, mbounds,
    sortedLR, indicesLR, bebounds,
    nrows, nelements, nelementsLR,
    dirtycache, limboundscache, starts, lengths,
    last_tover, tmpfilename,
    call, ncalls,
    array

idxvars == <<sorted, indices, ranges, mranges, bounds, abounds, zbounds, mbounds>>

lrvars == <<sortedLR, indicesLR, bebounds>>

\* What no call on the index assigns: its sizes, and the Array node that
\* is iterated over.
params == <<chunksize, slicesize, blocksize, superblocksize, array>>

vars == <<params, column, idxvars, lrvars, nrows, nelements, nelementsLR,
          dirtycache, limboundscache, starts, lengths, last_tover,
          tmpfilename, call, ncalls>>

-----------------------------------------------------------------------------
(* Bounds of the model and the inputs that are enumerated.                 *)

\* The largest number of full slices appended.
MaxSlices == 4

\* The largest number of calls of appendLastRow, and of search.
MaxLastRows == 1

MaxSearches == 2

\* The number of slots of the limits cache.
MaxSlots == 1

\* The largest number of rows of the Array that is iterated over, and the
\* largest number of rows of its buffer.
MaxRows == 3

MaxRowsInBuf == 2

\* infinityMap['int8'] : the representational -inf and +inf of the column type.
InfNeg == -128

InfPos == 127

\* The arrays the table layer hands to append (one slice of column rows).
InputArrays ==
    { <<4, 5, 1, 3>>, <<8, 8, 2, 8>> }

\* The arrays appended where searches are interleaved with the appends.
SearchArrays ==
    { <<5, 2, 5, 1>> }

-----------------------------------------------------------------------------
(* Python and numpy primitives.                                            *)

Min2(a, b) == IF a <= b THEN a ELSE b

\* a[start:stop] with 0 <= start, Python's clamping of stop.
PySlice(a, start, stop) ==
    SubSeq(a, start + 1, Min2(stop, Len(a)))

\* a[start::step]
Strided(a, start, step) ==
    IF start >= Len(a) THEN << >>
    ELSE [k \in 1..((Len(a) - start + step - 1) \div step)
              |-> a[start + (k - 1) * step + 1]]

\* The place (1-based) of item i in the stable ascending order of a.
Rank(a, i) ==
    Cardinality({ j \in 1..Len(a) : a[j] < a[i] \/ (a[j] = a[i] /\ j < i) }) + 1

\* A faulty argsort: the positions in the order they have.
ArgSort_asis(a) == [r \in 1..Len(a) |-> r - 1]

\* numpy.argsort(a): 0-based positions of the items of a in ascending order.
ArgSort(a) ==
    SubSeq([r \in 1..Len(a) |-> (CHOOSE i \in 1..Len(a) : Rank(a, i) = r) - 1],
           1, Len(a))

\* a[s] : fancy selection by the 0-based positions s.
Take(a, s) == SubSeq([k \in 1..Len(s) |-> a[s[k] + 1]], 1, Len(s))

\* A faulty s + offset: the offset of the slice is dropped.
AddOffset_none(s, offset) == s

\* s + offset
AddOffset(s, offset) == [k \in 1..Len(s) |-> s[k] + offset]

\* a[start:start+len(v)] = v   (0-based start)
Assign(a, start, v) ==
    [k \in 1..Len(a) |->
        IF k > start /\ k <= start + Len(v) THEN v[k - start] ELSE a[k]]

\* The array s, and the 2-D array m, with every cell computed (a value, not
\* an expression that is evaluated again at each access).
AsArray(s) == SubSeq(s, 1, Len(s))

AsArray2(m) == AsArray([k \in 1..Len(m) |-> AsArray(m[k])])

AsArrays(I) ==
    [sorted  |-> AsArray2(I.sorted),
     indices |-> AsArray2(I.indices),
     ranges  |-> AsArray2(I.ranges),
     mranges |-> AsArray(I.mranges),
     bounds  |-> AsArray2(I.bounds),
     abounds |-> AsArray(I.abounds),
     zbounds |-> AsArray(I.zbounds),
     mbounds |-> AsArray(I.mbounds)]

\* F(e), with e computed once, before F uses it.
Bind(e, F(_)) == CHOOSE r \in { F(v) : v \in {e} } : TRUE

\* bisect.bisect_left(a, x, 0, hi)
BisectLeft(a, x, hi) == Cardinality({ k \in 1..hi : a[k] < x })

\* bisect.bisect_right(a, x, 0, hi)
BisectRight(a, x, hi) == Cardinality({ k \in 1..hi : a[k] <= x })

-----------------------------------------------------------------------------
(* Properties of the Index class.                                          *)

nchunkslice == slicesize \div chunksize

nslicesblock == blocksize \div slicesize

nslices == nelements \div slicesize

nchunks == nelements \div chunksize

nblocks ==
    (nelements \div blocksize) + (IF nelements % blocksize > 0 THEN 1 ELSE 0)

nsuperblocks ==
    (nelements \div superblocksize)
        + (IF nelements % superblocksize > 0 THEN 1 ELSE 0)

nbounds_inslice == (slicesize - 1) \div chunksize

-----------------------------------------------------------------------------
(* Construction of a new index: Index.__init__ and _g_postInitHook.        *)
(* The sizes are those IndexArray would compute for a tiny index: chunks   *)
(* of 2 values, slices of 2 chunks, blocks of 2 slices, superblocks of 2   *)
(* blocks.  column is the indexed column of the table.  call records the   *)
(* last call and what it returned, ncalls counts the calls that are        *)
(* bounded.  The cells of sortedLR, which numpy.empty leaves as they are,  *)
(* start at 0; searchLastRow reads none of them before appendLastRow has   *)
(* written it.                                                             *)

\* Array.__init__: an Array of n rows whose buffer holds b rows; row r
\* holds the number r.  No loop has begun (_init is False); the attributes
\* of a loop, None until then, start at 0 and -1.
NewArray(n, b) ==
    [nrows |-> n, nrowsinbuf |-> b, init |-> FALSE,
     start |-> 0, stop |-> 0, step |-> 1,
     nrowsread |-> 0, startb |-> 0, stopb |-> 0,
     row |-> -1, nrow |-> -1, listarr |-> << >>]

InitSized(bs) ==
    /\ chunksize = 2
    /\ slicesize = 4
    /\ blocksize = bs
    /\ superblocksize = 16
    /\ column = << >>
    /\ sorted = << >>
    /\ indices = << >>
    /\ ranges = << >>
    /\ mranges = << >>
    /\ bounds = << >>
    /\ abounds = << >>
    /\ zbounds = << >>
    /\ mbounds = << >>
    /\ sortedLR = [k \in 1..(2 + ((4 - 1) \div 2) + 4) |-> 0]
    /\ indicesLR = [k \in 1..4 |-> 0]
    /\ bebounds = << >>
    /\ nrows = 0
    /\ nelements = 0
    /\ nelementsLR = 0
    /\ dirtycache = TRUE
    /\ limboundscache = << >>
    /\ starts = << >>
    /\ lengths = << >>
    /\ last_tover = <<0, 1>>
    /\ tmpfilename = "None"
    /\ call = [op |-> "init"]
    /\ ncalls = [appendLastRow |-> 0, search |-> 0]
    /\ array = NewArray(0, 1)

Init == InitSized(8)

\* The sizes of a block: 2 slices, and 4 slices (the whole superblock).
BlockSizes == { 8, 16 }

\* A new index whose blocks have either size.
BlocksInit == \E bs \in BlockSizes : InitSized(bs)

\* Opening an index that is not new: what _g_postInitHook sets from the
\* arrays on disk (sorted, indicesLR, sortedLR).
Reopen ==
    LET nelementsLR_ == indicesLR[Len(indicesLR)]
        nrows_       == Len(sorted)
        nboundsLR0   == (nelementsLR_ - 1) \div chunksize
        nboundsLR    == (IF nboundsLR0 < 0 THEN 0 ELSE nboundsLR0) + 2
    IN  [nrows       |-> IF nelementsLR_ > 0 THEN nrows_ + 1 ELSE nrows_,
         nelements   |-> nrows_ * slicesize + nelementsLR_,
         nelementsLR |-> nelementsLR_,
         bebounds    |-> PySlice(sortedLR, 0, nboundsLR)]

-----------------------------------------------------------------------------
(* Index.append                                                            *)

\* The rows of the column that the trailing partial slice covers.
LastRowValues == SubSeq(column, Len(sorted) * slicesize + 1, Len(column))

IsPrefix(p, a) == Len(p) <= Len(a) /\ SubSeq(a, 1, Len(p)) = p

\* A faulty median of a slice: its first value.
SliceMedian_first(arr) == arr[1]

\* smedian[ncs/2] of a sorted slice
SliceMedian(arr) ==
    Strided(arr, chunksize \div 2, chunksize)[(nchunkslice \div 2) + 1]

\* A faulty append: the counter of the last row is not reset.
append_keepLR(arr) ==
    LET s      == ArgSort(arr)
        sarr   == Take(arr, s)
        offset == Len(sorted) * slicesize
        cs     == chunksize
    IN  /\ indices' = Append(indices, AddOffset(s, offset))
        /\ sorted' = Append(sorted, sarr)
        /\ ranges' = Append(ranges, <<sarr[1], sarr[Len(sarr)]>>)
        /\ bounds' = Append(bounds, Strided(sarr, cs, cs))
        /\ abounds' = abounds \o Strided(sarr, 0, cs)
        /\ zbounds' = zbounds \o Strided(sarr, cs - 1, cs)
        /\ mbounds' = mbounds \o Strided(sarr, cs \div 2, cs)
        /\ mranges' = Append(mranges, SliceMedian(sarr))
        /\ nrows' = Len(sorted')
        /\ nelements' = nrows' * slicesize
        /\ nelementsLR' = nelementsLR
        /\ dirtycache' = TRUE
        /\ column' = SubSeq(column, 1, offset) \o arr
        /\ call' = [op |-> "append", n |-> Len(arr)]
        /\ UNCHANGED <<params, lrvars, limboundscache, starts, lengths,
                       last_tover, tmpfilename>>

\* A faulty append: the bounds are the second values of the chunks.
append_chunkEnds(arr) ==
    LET s      == ArgSort(arr)
        sarr   == Take(arr, s)
        offset == Len(sorted) * slicesize
        cs     == chunksize
    IN  /\ indices' = Append(indices, AddOffset(s, offset))
        /\ sorted' = Append(sorted, sarr)
        /\ ranges' = Append(ranges, <<sarr[1], sarr[Len(sarr)]>>)
        /\ bounds' = Append(bounds, Strided(sarr, cs + 1, cs))
        /\ abounds' = abounds \o Strided(sarr, 0, cs)
        /\ zbounds' = zbounds \o Strided(sarr, cs - 1, cs)
        /\ mbounds' = mbounds \o Strided(sarr, cs \div 2, cs)
        /\ mranges' = Append(mranges, SliceMedian(sarr))
        /\ nrows' = Len(sorted')
        /\ nelements' = nrows' * slicesize
        /\ nelementsLR' = 0
        /\ dirtycache' = TRUE
        /\ column' = SubSeq(column, 1, offset) \o arr
        /\ call' = [op |-> "append", n |-> Len(arr)]
        /\ UNCHANGED <<params, lrvars, limboundscache, starts, lengths,
                       last_tover, tmpfilename>>

append(arr) ==
    LET s      == ArgSort(arr)
        sarr   == Take(arr, s)
        offset == Len(sorted) * slicesize
        cs     == chunksize
    IN  /\ indices' = Append(indices, AddOffset(s, offset))
        /\ sorted' = Append(sorted, sarr)
        /\ ranges' = Append(ranges, <<sarr[1], sarr[Len(sarr)]>>)
        /\ bounds' = Append(bounds, Strided(sarr, cs, cs))
        /\ abounds' = abounds \o Strided(sarr, 0, cs)
        /\ zbounds' = zbounds \o Strided(sarr, cs - 1, cs)
        /\ mbounds' = mbounds \o Strided(sarr, cs \div 2, cs)
        /\ mranges' = Append(mranges, SliceMedian(sarr))
        /\ nrows' = Len(sorted')
        /\ nelements' = nrows' * slicesize
        /\ nelementsLR' = 0
        /\ dirtycache' = TRUE
        /\ column' = SubSeq(column, 1, offset) \o arr
        /\ call' = [op |-> "append", n |-> Len(arr)]
        /\ UNCHANGED <<params, lrvars, limboundscache, starts, lengths,
                       last_tover, tmpfilename>>

\* The table layer appends the next slice of column rows; the rows of an
\* outstanding partial slice are the first rows of that slice.
AppendFrom(arrays) ==
    \E arr \in arrays :
        /\ Len(sorted) < MaxSlices
        /\ IsPrefix(LastRowValues, arr)
        /\ append(arr)
        /\ UNCHANGED ncalls

CallAppend == AppendFrom(InputArrays)

-----------------------------------------------------------------------------
(* Index.appendLastRow                                                     *)

\* A faulty appendLastRow: the last row is not counted in nrows.
appendLastRow_sameRows(arr, tnrows) ==
    LET offset       == Len(sorted) * slicesize
        nelementsLR_ == tnrows - offset
        s            == ArgSort(arr)
        sarr         == Take(arr, s)
        bebounds_    == Append(Strided(sarr, 0, chunksize), sarr[Len(sarr)])
        indicesLR1   == Assign(indicesLR, 0, AddOffset(s, offset))
        indicesLR2   == [indicesLR1 EXCEPT ![Len(indicesLR1)] = nelementsLR_]
        offset2      == Len(bebounds_)
        sortedLR1    == Assign(sortedLR, 0, bebounds_)
        sortedLR2    == Assign(sortedLR1, offset2, sarr)
    IN  IF nelementsLR_ # Len(arr)
        THEN \* the assertion fails before anything is written
             /\ call' = [op |-> "appendLastRow", error |-> "AssertionError",
                         nvalues |-> Len(arr), tnrows |-> tnrows]
             /\ UNCHANGED <<params, column, idxvars, lrvars, nrows, nelements,
                            nelementsLR, dirtycache, limboundscache, starts,
                            lengths, last_tover, tmpfilename>>
        ELSE /\ bebounds' = bebounds_
             /\ indicesLR' = indicesLR2
             /\ sortedLR' = sortedLR2
             /\ nrows' = Len(sorted)
             /\ nelements' = Len(sorted) * slicesize + nelementsLR_
             /\ nelementsLR' = nelementsLR_
             /\ dirtycache' = TRUE
             /\ column' = SubSeq(column, 1, offset) \o arr
             /\ call' = [op |-> "appendLastRow", error |-> "None",
                         nvalues |-> Len(arr), tnrows |-> tnrows]
             /\ UNCHANGED <<params, idxvars, limboundscache, starts, lengths,
                            last_tover, tmpfilename>>

\* A faulty appendLastRow: the values are stored after the cells that the
\* bounds of a whole slice would take.
appendLastRow_fixedOffset(arr, tnrows) ==
    LET offset       == Len(sorted) * slicesize
        nelementsLR_ == tnrows - offset
        s            == ArgSort(arr)
        sarr         == Take(arr, s)
        bebounds_    == Append(Strided(sarr, 0, chunksize), sarr[Len(sarr)])
        indicesLR1   == Assign(indicesLR, 0, AddOffset(s, offset))
        indicesLR2   == [indicesLR1 EXCEPT ![Len(indicesLR1)] = nelementsLR_]
        offset2      == 2 + nbounds_inslice
        sortedLR1    == Assign(sortedLR, 0, bebounds_)
        sortedLR2    == Assign(sortedLR1, offset2, sarr)
    IN  IF nelementsLR_ # Len(arr)
        THEN \* the assertion fails before anything is written
             /\ call' = [op |-> "appendLastRow", error |-> "AssertionError",
                         nvalues |-> Len(arr), tnrows |-> tnrows]
             /\ UNCHANGED <<params, column, idxvars, lrvars, nrows, nelements,
                            nelementsLR, dirtycache, limboundscache, starts,
                            lengths, last_tover, tmpfilename>>
        ELSE /\ bebounds' = bebounds_
             /\ indicesLR' = indicesLR2
             /\ sortedLR' = sortedLR2
             /\ nrows' = Len(sorted) + 1
             /\ nelements' = Len(sorted) * slicesize + nelementsLR_
             /\ nelementsLR' = nelementsLR_
             /\ dirtycache' = TRUE
             /\ column' = SubSeq(column, 1, offset) \o arr
             /\ call' = [op |-> "appendLastRow", error |-> "None",
                         nvalues |-> Len(arr), tnrows |-> tnrows]
             /\ UNCHANGED <<params, idxvars, limboundscache, starts, lengths,
                            last_tover, tmpfilename>>

\* A faulty appendLastRow: the number of values is not checked.
appendLastRow_unchecked(arr, tnrows) ==
    LET offset       == Len(sorted) * slicesize
        nelementsLR_ == tnrows - offset
        s            == ArgSort(arr)
        sarr         == Take(arr, s)
        bebounds_    == Append(Strided(sarr, 0, chunksize), sarr[Len(sarr)])
        indicesLR1   == Assign(indicesLR, 0, AddOffset(s, offset))
        indicesLR2   == [indicesLR1 EXCEPT ![Len(indicesLR1)] = nelementsLR_]
        offset2      == Len(bebounds_)
        sortedLR1    == Assign(sortedLR, 0, bebounds_)
        sortedLR2    == Assign(sortedLR1, offset2, sarr)
    IN  IF FALSE
        THEN \* the assertion fails before anything is written
             /\ call' = [op |-> "appendLastRow", error |-> "AssertionError",
                         nvalues |-> Len(arr), tnrows |-> tnrows]
             /\ UNCHANGED <<params, column, idxvars, lrvars, nrows, nelements,
                            nelementsLR, dirtycache, limboundscache, starts,
                            lengths, last_tover, tmpfilename>>
        ELSE /\ bebounds' = bebounds_
             /\ indicesLR' = indicesLR2
             /\ sortedLR' = sortedLR2
             /\ nrows' = Len(sorted) + 1
             /\ nelements' = Len(sorted) * slicesize + nelementsLR_
             /\ nelementsLR' = nelementsLR_
             /\ dirtycache' = TRUE
             /\ column' = SubSeq(column, 1, offset) \o arr
             /\ call' = [op |-> "appendLastRow", error |-> "None",
                         nvalues |-> Len(arr), tnrows |-> tnrows]
             /\ UNCHANGED <<params, idxvars, limboundscache, starts, lengths,
                            last_tover, tmpfilename>>

appendLastRow(arr, tnrows) ==
    LET offset       == Len(sorted) * slicesize
        nelementsLR_ == tnrows - offset
        s            == ArgSort(arr)
        sarr         == Take(arr, s)
        bebounds_    == Append(Strided(sarr, 0, chunksize), sarr[Len(sarr)])
        indicesLR1   == Assign(indicesLR, 0, AddOffset(s, offset))
        indicesLR2   == [indicesLR1 EXCEPT ![Len(indicesLR1)] = nelementsLR_]
        offset2      == Len(bebounds_)
        sortedLR1    == Assign(sortedLR, 0, bebounds_)
        sortedLR2    == Assign(sortedLR1, offset2, sarr)
    IN  IF nelementsLR_ # Len(arr)
        THEN \* the assertion fails before anything is written
             /\ call' = [op |-> "appendLastRow", error |-> "AssertionError",
                         nvalues |-> Len(arr), tnrows |-> tnrows]
             /\ UNCHANGED <<params, column, idxvars, lrvars, nrows, nelements,
                            nelementsLR, dirtycache, limboundscache, starts,
                            lengths, last_tover, tmpfilename>>
        ELSE /\ bebounds' = bebounds_
             /\ indicesLR' = indicesLR2
             /\ sortedLR' = sortedLR2
             /\ nrows' = Len(sorted) + 1
             /\ nelements' = Len(sorted) * slicesize + nelementsLR_
             /\ nelementsLR' = nelementsLR_
             /\ dirtycache' = TRUE
             /\ column' = SubSeq(column, 1, offset) \o arr
             /\ call' = [op |-> "appendLastRow", error |-> "None",
                         nvalues |-> Len(arr), tnrows |-> tnrows]
             /\ UNCHANGED <<params, idxvars, limboundscache, starts, lengths,
                            last_tover, tmpfilename>>

\* The partial slices the table layer hands over: a non-empty start of a
\* slice, shorter than a slice, that holds the rows already in the last row.
LastRowArrays(arrays) ==
    { SubSeq(a, 1, n) : a \in arrays, n \in 1..(slicesize - 1) }

\* tnrows is the number of rows of the table.
AppendLastRowFrom(arrays) ==
    \E arr \in LastRowArrays(arrays) :
        /\ ncalls.appendLastRow < MaxLastRows
        /\ IsPrefix(LastRowValues, arr)
        /\ appendLastRow(arr, Len(sorted) * slicesize + Len(arr))
        /\ ncalls' = [ncalls EXCEPT !.appendLastRow = @ + 1]

CallAppendLastRow == AppendLastRowFrom(InputArrays)

\* The table layer hands over a number of rows that is one off the values
\* it passes.
AppendLastRowMiscounted(arrays) ==
    \E arr \in LastRowArrays(arrays) : \E d \in { -1, 1 } :
        /\ IsPrefix(LastRowValues, arr)
        /\ appendLastRow(arr, Len(sorted) * slicesize + Len(arr) + d)
        /\ UNCHANGED ncalls

CallAppendLastRowMiscounted == AppendLastRowMiscounted(InputArrays)

-----------------------------------------------------------------------------
(* NumericFrontier: infType, IntTypeNextAfter, nextafter for an integer    *)
(* column, and the range translation Index.getLookupRange.                 *)

\* infinityMap[dtype.name][sign >= 0]
infType(sign) == IF sign >= 0 THEN InfPos ELSE InfNeg

\* x is a Python int: x-1 or x+1
IntTypeNextAfter(x, direction) ==
    IF direction < 0 THEN x - 1 ELSE x + 1

nextafter(x, direction) ==
    IF direction = 0 THEN x ELSE IntTypeNextAfter(x, direction)

-----------------------------------------------------------------------------
(* StringNextAfter: byte strings are sequences of bytes 0..ByteMax; the    *)
(* order of Python strings is the lexicographic order of their bytes.      *)

\* 0xff, the largest byte
ByteMax == 255

\* "\x00"*n, "\xff"*n
Repeat(b, n) == [k \in 1..n |-> b]

\* x += "\x00"*padsize, when padsize > 0
Padded(x, itemsize) ==
    IF itemsize - Len(x) > 0 THEN x \o Repeat(0, itemsize - Len(x)) ELSE x

Reverse(l) == [k \in 1..Len(l) |-> l[Len(l) + 1 - k]]

\* xlist == "\xff"*itemsize : xlist is a list and the right side a str, and
\* a Python list never equals a str.
ListEqualsStr(xlist, s) == FALSE

RECURSIVE IncrementFrom(_, _)
\* The loop of direction > 0 from position i (1-based) of the reversed list.
IncrementFrom(xlist, i) ==
    IF i > Len(xlist) THEN xlist
    ELSE IF xlist[i] < ByteMax
         THEN [xlist EXCEPT ![i] = @ + 1]
         ELSE IncrementFrom([xlist EXCEPT ![i] = 0], i + 1)

RECURSIVE DecrementFrom(_, _)
\* The loop of direction < 0 from position i (1-based) of the reversed list.
DecrementFrom(xlist, i) ==
    IF i > Len(xlist) THEN xlist
    ELSE IF xlist[i] > 0
         THEN [xlist EXCEPT ![i] = @ - 1]
         ELSE DecrementFrom([xlist EXCEPT ![i] = ByteMax], i + 1)

\* A faulty StringNextAfter: the string is not padded to itemsize bytes.
StringNextAfter_unpadded(x, direction, itemsize) ==
    IF direction > 0
    THEN AsArray(Reverse(IncrementFrom(Reverse(x), 1)))
    ELSE AsArray(Reverse(DecrementFrom(Reverse(x), 1)))

StringNextAfter(x, direction, itemsize) ==
    LET xlist == Reverse(Padded(x, itemsize))
    IN  IF direction > 0
        THEN IF ListEqualsStr(xlist, Repeat(ByteMax, itemsize))
             THEN AsArray(xlist)
             ELSE AsArray(Reverse(IncrementFrom(xlist, 1)))
        ELSE IF ListEqualsStr(xlist, Repeat(0, itemsize))
             THEN AsArray(xlist)
             ELSE AsArray(Reverse(DecrementFrom(xlist, 1)))

\* nextafter for a column of byte strings (dtype.kind == "S")
nextafterS(x, direction, itemsize) ==
    IF direction = 0 THEN x ELSE StringNextAfter(x, direction, itemsize)

\* a < b for Python strings
StrLess(a, b) ==
    \/ Len(a) < Len(b) /\ SubSeq(b, 1, Len(a)) = a
    \/ \E k \in 1..Min2(Len(a), Len(b)) :
           /\ SubSeq(a, 1, k - 1) = SubSeq(b, 1, k - 1)
           /\ a[k] < b[k]

-----------------------------------------------------------------------------
(* Index.getLookupRange                                                    *)

\* The empty tuple () that getLookupRange returns for an always-false query.
EmptyItem == << >>

\* A faulty getLookupRange: 'le' and 'ge' exclude the limit, as 'lt' and
\* 'gt' do.
getLookupRange_strict(ops, limits) ==
    IF Len(limits) = 1
    THEN LET limit == limits[1]
             op    == ops[1]
         IN  CASE op \in { "lt", "le" } ->
                      <<infType(-1), nextafter(limit, -1)>>
               [] op \in { "gt", "ge" } ->
                      <<nextafter(limit, 1), infType(1)>>
               [] op = "eq" -> <<limit, limit>>
    ELSE IF limits[1] > limits[2] THEN EmptyItem
         ELSE <<nextafter(limits[1], 1), nextafter(limits[2], -1)>>

\* A faulty getLookupRange: the limits of a two-sided query are not compared.
getLookupRange_unordered(ops, limits) ==
    IF Len(limits) = 1
    THEN LET limit == limits[1]
             op    == ops[1]
         IN  CASE op = "lt" -> <<infType(-1), nextafter(limit, -1)>>
               [] op = "le" -> <<infType(-1), limit>>
               [] op = "gt" -> <<nextafter(limit, 1), infType(1)>>
               [] op = "ge" -> <<limit, infType(1)>>
               [] op = "eq" -> <<limit, limit>>
    ELSE <<nextafter(limits[1], IF ops[1] = "gt" THEN 1 ELSE 0),
           nextafter(limits[2], IF ops[2] = "lt" THEN -1 ELSE 0)>>

\* What stands for the AssertionError that a failed assert raises, where a
\* range would have been returned.
AssertionError == <<"AssertionError">>

\* A faulty getLookupRange: a pair of operators that is not a lower and an
\* upper one is answered with the limits as they are.
getLookupRange_lenient(ops, limits) ==
    IF Len(limits) = 1
    THEN LET limit == limits[1]
             op    == ops[1]
         IN  CASE op = "lt" -> <<infType(-1), nextafter(limit, -1)>>
               [] op = "le" -> <<infType(-1), limit>>
               [] op = "gt" -> <<nextafter(limit, 1), infType(1)>>
               [] op = "ge" -> <<limit, infType(1)>>
               [] op = "eq" -> <<limit, limit>>
    ELSE LET lower == limits[1]
             upper == limits[2]
         IN  IF ~(ops[1] \in { "gt", "ge" } /\ ops[2] \in { "lt", "le" })
             THEN <<lower, upper>>
             ELSE
             IF lower > upper THEN EmptyItem
             ELSE CASE ops = <<"gt", "lt">> ->
                           <<nextafter(lower, 1), nextafter(upper, -1)>>
                    [] ops = <<"ge", "lt">> -> <<lower, nextafter(upper, -1)>>
                    [] ops = <<"gt", "le">> -> <<nextafter(lower, 1), upper>>
                    [] ops = <<"ge", "le">> -> <<lower, upper>>

getLookupRange(ops, limits) ==
    IF Len(limits) = 1
    THEN LET limit == limits[1]
             op    == ops[1]
         IN  CASE op = "lt" -> <<infType(-1), nextafter(limit, -1)>>
               [] op = "le" -> <<infType(-1), limit>>
               [] op = "gt" -> <<nextafter(limit, 1), infType(1)>>
               [] op = "ge" -> <<limit, infType(1)>>
               [] op = "eq" -> <<limit, limit>>
    ELSE LET lower == limits[1]
             upper == limits[2]
         IN  IF ~(ops[1] \in { "gt", "ge" } /\ ops[2] \in { "lt", "le" })
             THEN AssertionError
             ELSE
             IF lower > upper THEN EmptyItem
             ELSE CASE ops = <<"gt", "lt">> ->
                           <<nextafter(lower, 1), nextafter(upper, -1)>>
                    [] ops = <<"ge", "lt">> -> <<lower, nextafter(upper, -1)>>
                    [] ops = <<"gt", "le">> -> <<nextafter(lower, 1), upper>>
                    [] ops = <<"ge", "le">> -> <<lower, upper>>

-----------------------------------------------------------------------------
(* The limits cache (ObjectCache of lrucacheExtension) and the binary      *)
(* search inside one full slice (IndexArray._searchBin), both outside the  *)
(* source at hand and modelled from their description.                     *)

\* getslot(key): the slot (1-based) holding key, or -1.
getslot(cache, key) ==
    IF \E n \in 1..Len(cache) : cache[n].key = key
    THEN CHOOSE n \in 1..Len(cache) : cache[n].key = key
    ELSE -1

\* setitem(key, value, size): the newest entry first, the oldest evicted.
setitem(cache, key, value) ==
    LET kept == SelectSeq(cache, LAMBDA e : e.key # key)
    IN  PySlice(<<[key |-> key, value |-> value]>> \o kept, 0, MaxSlots)

\* Two-level search of slice i: early rejection on ranges[i], then the chunk
\* picked in bounds[i], then the position inside that chunk.
searchBin(i, item) ==
    LET item1 == item[1]
        item2 == item[2]
        cs    == chunksize
        row   == sorted[i]
        lochunk == BisectLeft(bounds[i], item1, Len(bounds[i]))
        hichunk == BisectRight(bounds[i], item2, Len(bounds[i]))
        lorow == PySlice(row, cs * lochunk, cs * (lochunk + 1))
        hirow == PySlice(row, cs * hichunk, cs * (hichunk + 1))
        lopos == cs * lochunk + BisectLeft(lorow, item1, Len(lorow))
        hipos == cs * hichunk + BisectRight(hirow, item2, Len(hirow))
    IN  IF item1 > ranges[i][2] \/ item2 < ranges[i][1]
        THEN <<0, 0>>
        ELSE <<lopos, hipos>>

-----------------------------------------------------------------------------
(* Index.searchLastRow                                                     *)

\* LastRowArray._readSortedSlice(sorted, start, stop): sortedLR[start:stop]
readSliceLR(start, stop) == PySlice(sortedLR, start, stop)

\* A faulty lookup in the last row: the whole last row, whatever the item.
searchLastRow_whole(item) == <<0, nelementsLR>>

\* A faulty lookup in the last row: the upper limit is looked up in its
\* chunk as the lower one is.
searchLastRow_left(item) ==
    LET item1  == item[1]
        item2  == item[2]
        hi     == nelementsLR
        cs     == chunksize
        begin  == bebounds[1]
        end    == bebounds[Len(bebounds)]
        \* items at the beginning of the slice
        done1a == item1 <= begin
        done2a == item2 < begin
        \* items at the end of the slice
        done1b == done1a \/ item1 > end
        done2b == done2a \/ item2 >= end
        early1 == IF done1a THEN 0 ELSE hi
        early2 == IF done2a THEN 0 ELSE hi
        \* lookup in the middle of the slice
        bnds    == SubSeq(bebounds, 2, Len(bebounds) - 1)
        nbounds == Len(bebounds)
        nchunk  == IF done1b THEN -1 ELSE BisectLeft(bnds, item1, Len(bnds))
        end1    == Min2(cs * (nchunk + 1), hi)
        chunk1  == readSliceLR(nbounds + cs * nchunk, nbounds + end1)
        hi2a    == IF ~done1b /\ Len(chunk1) < hi THEN Len(chunk1) ELSE hi
        nchunk2 == BisectRight(bnds, item2, Len(bnds))
        reread  == nchunk2 # nchunk
        end2    == Min2(cs * (nchunk2 + 1), hi)
        chunk2  == IF reread
                   THEN readSliceLR(nbounds + cs * nchunk2, nbounds + end2)
                   ELSE chunk1
        hi2b    == IF reread /\ Len(chunk2) < hi THEN Len(chunk2) ELSE hi2a
        result1 == IF done1b THEN early1
                   ELSE BisectLeft(chunk1, item1, hi2a) + cs * nchunk
        result2 == IF done2b THEN early2
                   ELSE BisectLeft(chunk2, item2, hi2b) + cs * nchunk2
    IN  <<result1, result2>>

searchLastRow(item) ==
    LET item1  == item[1]
        item2  == item[2]
        hi     == nelementsLR
        cs     == chunksize
        begin  == bebounds[1]
        end    == bebounds[Len(bebounds)]
        \* items at the beginning of the slice
        done1a == item1 <= begin
        done2a == item2 < begin
        \* items at the end of the slice
        done1b == done1a \/ item1 > end
        done2b == done2a \/ item2 >= end
        early1 == IF done1a THEN 0 ELSE hi
        early2 == IF done2a THEN 0 ELSE hi
        \* lookup in the middle of the slice
        bnds    == SubSeq(bebounds, 2, Len(bebounds) - 1)
        nbounds == Len(bebounds)
        nchunk  == IF done1b THEN -1 ELSE BisectLeft(bnds, item1, Len(bnds))
        end1    == Min2(cs * (nchunk + 1), hi)
        chunk1  == readSliceLR(nbounds + cs * nchunk, nbounds + end1)
        hi2a    == IF ~done1b /\ Len(chunk1) < hi THEN Len(chunk1) ELSE hi
        nchunk2 == BisectRight(bnds, item2, Len(bnds))
        reread  == nchunk2 # nchunk
        end2    == Min2(cs * (nchunk2 + 1), hi)
        chunk2  == IF reread
                   THEN readSliceLR(nbounds + cs * nchunk2, nbounds + end2)
                   ELSE chunk1
        hi2b    == IF reread /\ Len(chunk2) < hi THEN Len(chunk2) ELSE hi2a
        result1 == IF done1b THEN early1
                   ELSE BisectLeft(chunk1, item1, hi2a) + cs * nchunk
        result2 == IF done2b THEN early2
                   ELSE BisectRight(chunk2, item2, hi2b) + cs * nchunk2
    IN  <<result1, result2>>

-----------------------------------------------------------------------------
(* Index.restorecache, Index.search_scalar, Index.search                   *)

Zeros(n) == [k \in 1..n |-> 0]

SumSeq(s) ==
    LET RECURSIVE Sum(_)
        Sum(k) == IF k = 0 THEN 0 ELSE s[k] + Sum(k - 1)
    IN  Sum(Len(s))

\* search_scalar: <<start, stop>> of every full slice
search_scalar(item) == [i \in 1..Len(sorted) |-> searchBin(i, item)]

\* The (nrow, start, length) triples of the rows with length > 0.
Startlengths(starts_, lengths_) ==
    LET RECURSIVE Collect(_)
        Collect(k) ==
            IF k = 0 THEN << >>
            ELSE IF lengths_[k] > 0
                 THEN Append(Collect(k - 1), <<k - 1, starts_[k], lengths_[k]>>)
                 ELSE Collect(k - 1)
    IN  Collect(Len(lengths_))

\* starts / lengths after the rows of a cache entry are copied in.
FromCache(arr0, startlengths, field) ==
    [k \in 1..Len(arr0) |->
        IF \E n \in 1..Len(startlengths) : startlengths[n][1] = k - 1
        THEN (CHOOSE e \in { startlengths[n] : n \in 1..Len(startlengths) } :
                  e[1] = k - 1)[field]
        ELSE arr0[k]]

\* A faulty restorecache: the entries of the limits cache are kept.
restorecache_keep ==
    [limboundscache |-> limboundscache,
     starts         |-> [k \in 1..nrows |-> 0],
     lengths        |-> [k \in 1..nrows |-> 0]]

\* restorecache: an empty limits cache, and starts and lengths of nrows rows.
restorecache ==
    [limboundscache |-> << >>,
     starts         |-> Zeros(nrows),
     lengths        |-> Zeros(nrows)]

\* The record of a search: the key, the total returned, whether the limits
\* cache answered, and whether the search found the cache dirty while it
\* still held an entry for this key.
SearchCall(item, tlen, hit) ==
    [op |-> "search", item |-> item, tlen |-> tlen, hit |-> hit,
     stale |-> dirtycache /\ getslot(limboundscache, item) >= 0]

search(item, couldenablecache) ==
    LET rc       == IF dirtycache
                    THEN restorecache
                    ELSE [limboundscache |-> limboundscache,
                          starts |-> starts, lengths |-> lengths]
        cache0   == rc.limboundscache
        starts0  == rc.starts
        lengths0 == rc.lengths
        nslot    == getslot(cache0, item)
        \* the real lookup
        full     == IF Len(sorted) > 0 THEN search_scalar(item) ELSE << >>
        lr       == searchLastRow(item)
        starts1  == [k \in 1..Len(starts0) |->
                        IF k <= Len(full) THEN full[k][1]
                        ELSE IF nelementsLR > 0 /\ k = Len(starts0) THEN lr[1]
                        ELSE starts0[k]]
        lengths1 == [k \in 1..Len(lengths0) |->
                        IF k <= Len(full) THEN full[k][2] - full[k][1]
                        ELSE IF nelementsLR > 0 /\ k = Len(lengths0)
                             THEN lr[2] - lr[1]
                        ELSE lengths0[k]]
        tlen1    == SumSeq([k \in 1..Len(full) |-> full[k][2] - full[k][1]])
                      + (IF nelementsLR > 0 THEN lr[2] - lr[1] ELSE 0)
    IN  /\ dirtycache' = FALSE
        /\ IF item = EmptyItem
           THEN /\ starts' = Zeros(Len(starts0))
                /\ lengths' = Zeros(Len(lengths0))
                /\ limboundscache' = cache0
                /\ call' = SearchCall(item, 0, FALSE)
           ELSE IF nslot >= 0
           THEN LET startlengths == cache0[nslot].value
                IN  /\ lengths' = FromCache(Zeros(Len(lengths0)), startlengths, 3)
                    /\ starts' = FromCache(starts0, startlengths, 2)
                    /\ limboundscache' = cache0
                    /\ call' = SearchCall(item,
                                          SumSeq([n \in 1..Len(startlengths)
                                                    |-> startlengths[n][3]]),
                                          TRUE)
           ELSE /\ starts' = starts1
                /\ lengths' = lengths1
                /\ limboundscache' =
                       IF couldenablecache
                       THEN setitem(cache0, item, Startlengths(starts1, lengths1))
                       ELSE cache0
                /\ call' = SearchCall(item, tlen1, FALSE)
        /\ UNCHANGED <<params, column, idxvars, lrvars, nrows, nelements,
                       nelementsLR, last_tover, tmpfilename>>

\* The queries of the table layer: operators and limits, translated by
\* getLookupRange into the item that is searched.
Queries ==
    { <<<<"le">>, <<InfPos>>>>,
      <<<<"eq">>, <<4>>>>,
      <<<<"gt", "lt">>, <<2, 2>>>>,
      <<<<"ge", "le">>, <<2, 5>>>>,
      <<<<"ge", "le">>, <<5, 2>>>> }

CallSearch ==
    \E q \in Queries, couldenablecache \in BOOLEAN :
        /\ ncalls.search < MaxSearches
        /\ search(getLookupRange(q[1], q[2]), couldenablecache)
        /\ ncalls' = [ncalls EXCEPT !.search = @ + 1]

-----------------------------------------------------------------------------
(* The arrays of the index, and of the scratch file, as one value, so that *)
(* the phases of optimize can be composed.                                 *)

IndexArrays ==
    [sorted |-> sorted, indices |-> indices, ranges |-> ranges,
     mranges |-> mranges, bounds |-> bounds, abounds |-> abounds,
     zbounds |-> zbounds, mbounds |-> mbounds]

\* Index.create_temps: the zero-filled arrays of the scratch file.
create_temps ==
    AsArrays(
    [sorted  |-> [i \in 1..nrows |-> Zeros(slicesize)],
     indices |-> [i \in 1..nrows |-> Zeros(slicesize)],
     bounds  |-> [i \in 1..nslices |-> Zeros(nbounds_inslice)],
     abounds |-> Zeros(nchunks),
     zbounds |-> Zeros(nchunks),
     mbounds |-> Zeros(nchunks),
     ranges  |-> [i \in 1..nslices |-> <<0, 0>>],
     mranges |-> Zeros(nslices)])

\* boundsnames[mode]
BoundsObj(I, mode) ==
    CASE mode = "start"  -> I.abounds
      [] mode = "stop"   -> I.zbounds
      [] mode = "median" -> I.mbounds

\* (sidx != numpy.arange(n)).sum() / 2
NDiff(sidx) == Cardinality({ k \in 1..Len(sidx) : sidx[k] # k - 1 }) \div 2

-----------------------------------------------------------------------------
(* Index.reorder_slices                                                    *)

reorder_slices(I, T, nblock) ==
    LET cs   == chunksize
        ncs  == nchunkslice
        nsb  == nslicesblock
        \* the slices nblock*nsb .. (nblock+1)*nsb - 1 that exist
        InBlock(n) == n >= nblock * nsb /\ n < (nblock + 1) * nsb
                        /\ n < Len(I.sorted)
        sidx(n)  == ArgSort(T.sorted[n + 1])
        block(n) == Take(T.sorted[n + 1], sidx(n))
        PerChunk(old, start) ==
            [k \in 1..Len(old) |->
                LET n == (k - 1) \div ncs
                IN  IF InBlock(n)
                    THEN Strided(block(n), start, cs)[((k - 1) % ncs) + 1]
                    ELSE old[k]]
    IN  AsArrays(
        [sorted  |-> [k \in 1..Len(I.sorted) |->
                         IF InBlock(k - 1) THEN block(k - 1) ELSE I.sorted[k]],
         indices |-> [k \in 1..Len(I.indices) |->
                         IF InBlock(k - 1)
                         THEN Take(T.indices[k], sidx(k - 1))
                         ELSE I.indices[k]],
         ranges  |-> [k \in 1..Len(I.ranges) |->
                         IF InBlock(k - 1)
                         THEN <<block(k - 1)[1], block(k - 1)[slicesize]>>
                         ELSE I.ranges[k]],
         bounds  |-> [k \in 1..Len(I.bounds) |->
                         IF InBlock(k - 1)
                         THEN Strided(block(k - 1), cs, cs)
                         ELSE I.bounds[k]],
         abounds |-> PerChunk(I.abounds, 0),
         zbounds |-> PerChunk(I.zbounds, cs - 1),
         mbounds |-> PerChunk(I.mbounds, cs \div 2),
         mranges |-> [k \in 1..Len(I.mranges) |->
                         IF InBlock(k - 1)
                         THEN Strided(block(k - 1), cs \div 2, cs)[(ncs \div 2) + 1]
                         ELSE I.mranges[k]]])

-----------------------------------------------------------------------------
(* Index.swap_chunks                                                       *)

\* A faulty gathering: every chunk of a slice of the scratch arrays is the
\* first one the new order gives that slice.
GatherChunks_first(arr, sbounds_idx, i, offset) ==
    [p \in 1..slicesize |->
        LET j   == (p - 1) \div chunksize
            idx == sbounds_idx[i * nchunkslice + 1]
            ins == idx \div nchunkslice
            inc == (idx - ins * nchunkslice) * chunksize
        IN  arr[ins + offset + 1][inc + ((p - 1) % chunksize) + 1]]

\* tmp_sorted[ns], tmp_indices[ns] for slice i of the block: the chunks
\* sbounds_idx[i*ncs .. i*ncs+ncs-1], gathered in that order.
GatherChunks(arr, sbounds_idx, i, offset) ==
    [p \in 1..slicesize |->
        LET j   == (p - 1) \div chunksize
            idx == sbounds_idx[i * nchunkslice + j + 1]
            ins == idx \div nchunkslice
            inc == (idx - ins * nchunkslice) * chunksize
        IN  arr[ins + offset + 1][inc + ((p - 1) % chunksize) + 1]]

\* tmp_sorted and tmp_indices after the chunks of block nblock are gathered
\* in the order sbounds_idx.
GatherBlock(I, T, sbounds_idx, nblock, nsl) ==
    LET offset == nblock * nslicesblock
        InBlock(n) == n >= offset /\ n < offset + nsl
    IN  [T EXCEPT
           !.sorted = AsArray2([k \in 1..Len(T.sorted) |->
                         IF InBlock(k - 1)
                         THEN GatherChunks(I.sorted, sbounds_idx,
                                           k - 1 - offset, offset)
                         ELSE T.sorted[k]]),
           !.indices = AsArray2([k \in 1..Len(T.indices) |->
                         IF InBlock(k - 1)
                         THEN GatherChunks(I.indices, sbounds_idx,
                                           k - 1 - offset, offset)
                         ELSE T.indices[k]])]

RECURSIVE swap_chunks_from(_, _, _, _, _)
\* The loop over the blocks, from block nblock on; ncb2 is carried over.
\* The result is <<I, T>>.
swap_chunks_from(I, T, mode, nblock, ncb2in) ==
    IF nblock >= nblocks THEN <<I, T>>
    ELSE
    LET ncs  == nchunkslice
        ncb  == ncs * nslicesblock
        remainingchunks == nchunks - nblock * ncb
        ncb2 == IF remainingchunks < ncb
                THEN (remainingchunks \div ncs) * ncs
                ELSE ncb2in
        bnds == PySlice(BoundsObj(I, mode), nblock * ncb, nblock * ncb + ncb2)
    IN  IF ncb2 <= 1 THEN <<I, T>>
        ELSE Bind(ArgSort(bnds), LAMBDA sbounds_idx :
               IF NDiff(sbounds_idx) * 20 < ncb2
               THEN swap_chunks_from(I, T, mode, nblock + 1, ncb2)
               ELSE Bind(GatherBlock(I, T, sbounds_idx, nblock, ncb2 \div ncs),
                      LAMBDA T2 :
                        Bind(reorder_slices(I, T2, nblock), LAMBDA I2 :
                          swap_chunks_from(I2, T2, mode, nblock + 1, ncb2))))

swap_chunks(I, T, mode) ==
    swap_chunks_from(I, T, mode, 0, nchunkslice * nslicesblock)

-----------------------------------------------------------------------------
(* Index.swap_slices                                                       *)

\* The keys the slices of a superblock are ordered by.
SliceKeys(I, mode, first, n) ==
    LET rows == PySlice(I.ranges, first, first + n)
    IN  CASE mode = "start"  -> [k \in 1..Len(rows) |-> rows[k][1]]
          [] mode = "stop"   -> [k \in 1..Len(rows) |-> rows[k][2]]
          [] mode = "median" -> PySlice(I.mranges, first, first + n)

\* A faulty move: every slice of the superblock receives the first one of
\* the new order.
MoveRows_first(dst, src, sranges_idx, ns) ==
    [k \in 1..Len(dst) |->
        IF k - 1 >= ns /\ k - 1 < ns + Len(sranges_idx)
        THEN src[ns + sranges_idx[1] + 1]
        ELSE dst[k]]

\* dst[oi] = src[oidx] for the slices oi = ns+i, oidx = ns+sranges_idx[i]
MoveRows(dst, src, sranges_idx, ns) ==
    [k \in 1..Len(dst) |->
        IF k - 1 >= ns /\ k - 1 < ns + Len(sranges_idx)
        THEN src[ns + sranges_idx[k - ns] + 1]
        ELSE dst[k]]

\* dst[oi*ncs:(oi+1)*ncs] = src[oidx*ncs:(oidx+1)*ncs]
MoveChunks(dst, src, sranges_idx, ns) ==
    [k \in 1..Len(dst) |->
        LET oi == (k - 1) \div nchunkslice
        IN  IF oi >= ns /\ oi < ns + Len(sranges_idx)
            THEN src[(ns + sranges_idx[oi - ns + 1]) * nchunkslice
                       + ((k - 1) % nchunkslice) + 1]
            ELSE dst[k]]

\* dst[oi] = src[oi] for ns <= oi < ns+n
CopyRows(dst, src, ns, n) ==
    [k \in 1..Len(dst) |->
        IF k - 1 >= ns /\ k - 1 < ns + n THEN src[k] ELSE dst[k]]

\* dst[oi*ncs:(oi+1)*ncs] = src[oi*ncs:(oi+1)*ncs] for ns <= oi < ns+n
CopyChunks(dst, src, ns, n) ==
    [k \in 1..Len(dst) |->
        LET oi == (k - 1) \div nchunkslice
        IN  IF oi >= ns /\ oi < ns + n THEN src[k] ELSE dst[k]]

\* originals --> tmp, in the new order
SlicesToTmp(I, T, sranges_idx, ns) ==
    AsArrays(
    [sorted  |-> MoveRows(T.sorted, I.sorted, sranges_idx, ns),
     indices |-> MoveRows(T.indices, I.indices, sranges_idx, ns),
     ranges  |-> MoveRows(T.ranges, I.ranges, sranges_idx, ns),
     mranges |-> MoveRows(T.mranges, I.mranges, sranges_idx, ns),
     bounds  |-> MoveRows(T.bounds, I.bounds, sranges_idx, ns),
     abounds |-> MoveChunks(T.abounds, I.abounds, sranges_idx, ns),
     zbounds |-> MoveChunks(T.zbounds, I.zbounds, sranges_idx, ns),
     mbounds |-> MoveChunks(T.mbounds, I.mbounds, sranges_idx, ns)])

\* tmp --> originals
SlicesFromTmp(I, T2, ns, nss2) ==
    AsArrays(
    [sorted  |-> CopyRows(I.sorted, T2.sorted, ns, nss2),
     indices |-> CopyRows(I.indices, T2.indices, ns, nss2),
     ranges  |-> CopyRows(I.ranges, T2.ranges, ns, nss2),
     mranges |-> CopyRows(I.mranges, T2.mranges, ns, nss2),
     bounds  |-> CopyRows(I.bounds, T2.bounds, ns, nss2),
     abounds |-> CopyChunks(I.abounds, T2.abounds, ns, nss2),
     zbounds |-> CopyChunks(I.zbounds, T2.zbounds, ns, nss2),
     mbounds |-> CopyChunks(I.mbounds, T2.mbounds, ns, nss2)])

RECURSIVE swap_slices_from(_, _, _, _, _)
\* The loop over the superblocks, from superblock sblock on; nss2 is
\* carried over.  The result is <<I, T>>.
swap_slices_from(I, T, mode, sblock, nss2in) ==
    IF sblock >= nsuperblocks THEN <<I, T>>
    ELSE
    LET nss  == superblocksize \div slicesize
        remainingslices == nslices - sblock * nss
        nss2 == IF remainingslices < nss THEN remainingslices ELSE nss2in
        ns   == sblock * nss2
    IN  IF nss2 <= 1 THEN <<I, T>>
        ELSE Bind(ArgSort(SliceKeys(I, mode, sblock * nss, nss2)),
               LAMBDA sranges_idx :
                 IF NDiff(sranges_idx) * 50 < nss2
                 THEN swap_slices_from(I, T, mode, sblock + 1, nss2)
                 ELSE Bind(SlicesToTmp(I, T, sranges_idx, ns), LAMBDA T2 :
                        Bind(SlicesFromTmp(I, T2, ns, nss2), LAMBDA I2 :
                          swap_slices_from(I2, T2, mode, sblock + 1, nss2))))

swap_slices(I, T, mode) ==
    swap_slices_from(I, T, mode, 0, superblocksize \div slicesize)

-----------------------------------------------------------------------------
(* Index.compute_overlaps                                                  *)

\* The pairs (i, j), i < j, of full slices (0-based) that overlap.
\* A faulty count of the overlaps: only neighbouring slices are compared.
OverlapPairs_adjacent(rng) ==
    { p \in (0..(nslices - 1)) \X (0..(nslices - 1)) :
          p[2] = p[1] + 1 /\ rng[p[1] + 1][2] > rng[p[2] + 1][1] }

OverlapPairs(rng) ==
    { p \in (0..(nslices - 1)) \X (0..(nslices - 1)) :
          p[1] < p[2] /\ rng[p[1] + 1][2] > rng[p[2] + 1][1] }

SumOver(S, f(_)) ==
    LET RECURSIVE Sum(_)
        Sum(R) == IF R = {} THEN 0
                  ELSE LET x == CHOOSE x \in R : TRUE
                       IN  f(x) + Sum(R \ {x})
    IN  Sum(S)

\* (noverlaps, multiplicity, toverlap); toverlap is the fraction
\* <<soverlap, erange>>, or <<-1, 1>> for the initial -1.
Overlaps(rng, pairs) ==
    LET Width(p) == rng[p[1] + 1][2] - rng[p[2] + 1][1]
        erange   == rng[Len(rng)][2] - rng[1][1]
    IN  [noverlaps    |-> Cardinality(pairs),
         multiplicity |-> AsArray([k \in 1..nslices |->
                             Cardinality({ p \in pairs : p[2] - p[1] = k - 1 })]),
         toverlap     |-> IF erange > 0
                          THEN <<SumOver(pairs, Width), erange>>
                          ELSE <<-1, 1>>]

compute_overlaps(rng) ==
    Bind(OverlapPairs(rng), LAMBDA pairs : Overlaps(rng, pairs))

\* compute_overlaps of an index on a column of byte strings, whose ranges
\* are rng: the ranges are compared as strings, soverlap and erange are not
\* computed and toverlap keeps its initial -1.
OverlapPairsS(rng) ==
    { p \in (0..(Len(rng) - 1)) \X (0..(Len(rng) - 1)) :
          p[1] < p[2] /\ StrLess(rng[p[2] + 1][1], rng[p[1] + 1][2]) }

compute_overlapsS(rng) ==
    Bind(OverlapPairsS(rng), LAMBDA pairs :
      [noverlaps    |-> Cardinality(pairs),
       multiplicity |-> AsArray([k \in 1..Len(rng) |->
                           Cardinality({ p \in pairs : p[2] - p[1] = k - 1 })]),
       toverlap     |-> <<-1, 1>>])

-----------------------------------------------------------------------------
(* Index.swap : one phase, and the thresholds that end the optimization.   *)
(* The state of an optimization is [I, T, last_tover, log].                *)

\* thnover
thnover == 4

\* a > 0. for the fraction a
FracPos(a) == a[1] > 0

\* (last - tover) / last < 0.1, for fractions last > 0 and tover > 0
LittleImprovement(last, tover) ==
    10 * tover[1] * last[2] > 9 * tover[2] * last[1]

\* A faulty verdict: the improvement of a swap of chunks is not looked at.
SwapVerdict_noEntropy(st, what, mode, IT, ov) ==
    LET tover == ov.toverlap
        nz    == Cardinality({ k \in 1..Len(ov.multiplicity) :
                                   ov.multiplicity[k] # 0 })
        \* what ran, and whether it moved anything
        log   == Append(st.log, <<what, mode, IT[1] # st.I>>)
        entropy == FALSE
        stop  == \/ ov.noverlaps < thnover
                 \/ 100 * nz < Len(ov.multiplicity)
                 \/ (tover[1] >= 0 /\ 1000 * tover[1] < tover[2])
    IN  IF entropy
        THEN [I |-> IT[1], T |-> IT[2], last_tover |-> st.last_tover,
              log |-> log, stop |-> TRUE]
        ELSE [I |-> IT[1], T |-> IT[2], last_tover |-> tover,
              log |-> log, stop |-> stop]

\* The verdict of swap on the overlaps ov of the arrays IT = <<I, T>>.
SwapVerdict(st, what, mode, IT, ov) ==
    LET tover == ov.toverlap
        nz    == Cardinality({ k \in 1..Len(ov.multiplicity) :
                                   ov.multiplicity[k] # 0 })
        \* what ran, and whether it moved anything
        log   == Append(st.log, <<what, mode, IT[1] # st.I>>)
        entropy == what = "chunks" /\ FracPos(st.last_tover) /\ FracPos(tover)
                     /\ LittleImprovement(st.last_tover, tover)
        stop  == \/ ov.noverlaps < thnover
                 \/ 100 * nz < Len(ov.multiplicity)
                 \/ (tover[1] >= 0 /\ 1000 * tover[1] < tover[2])
    IN  IF entropy
        THEN [I |-> IT[1], T |-> IT[2], last_tover |-> st.last_tover,
              log |-> log, stop |-> TRUE]
        ELSE [I |-> IT[1], T |-> IT[2], last_tover |-> tover,
              log |-> log, stop |-> stop]

swap(st, what, mode) ==
    Bind(CASE what = "create" -> <<st.I, create_temps>>
           [] what = "chunks" -> swap_chunks(st.I, st.T, mode)
           [] what = "slices" -> swap_slices(st.I, st.T, mode),
         LAMBDA IT :
           Bind(compute_overlaps(IT[1].ranges), LAMBDA ov :
             SwapVerdict(st, what, mode, IT, ov)))

-----------------------------------------------------------------------------
(* Index.optimize                                                          *)

\* A faulty list of phases: the full optimization swaps slices whatever the
\* number of blocks.
Phases_ungated(level) ==
    IF level = 9
    THEN <<<<"chunks", "median">>, <<"slices", "median">>,
           <<"chunks", "median">>, <<"chunks", "start">>,
           <<"chunks", "stop">>>>
    ELSE (IF 3 <= level THEN <<<<"chunks", "start">>>> ELSE << >>)
           \o (IF 6 <= level THEN <<<<"chunks", "stop">>>> ELSE << >>)

\* A faulty list of phases: every optimization starts with the medians.
Phases_medianFirst(level) ==
    IF level < 3 THEN << >>
    ELSE <<<<"chunks", "median">>>>
           \o (IF level = 9 /\ nblocks > 1
               THEN <<<<"slices", "median">>, <<"chunks", "median">>>>
               ELSE << >>)
           \o <<<<"chunks", "start">>>>
           \o (IF level >= 6 THEN <<<<"chunks", "stop">>>> ELSE << >>)

\* A faulty list of phases: the lowest levels swap chunks by their starts.
Phases_lowStarts(level) ==
    IF level = 9
    THEN <<<<"chunks", "median">>>>
           \o (IF nblocks > 1
               THEN <<<<"slices", "median">>, <<"chunks", "median">>>>
               ELSE << >>)
           \o <<<<"chunks", "start">>, <<"chunks", "stop">>>>
    ELSE <<<<"chunks", "start">>>>
           \o (IF level >= 6 THEN <<<<"chunks", "stop">>>> ELSE << >>)

\* The phases that follow swap('create'), in the order of the loop body.
Phases(level) ==
    LET optstarts == 3 <= level /\ level < 9
        optstops  == 6 <= level /\ level < 9
        optfull   == level = 9
    IN  IF optfull
        THEN <<<<"chunks", "median">>>>
               \o (IF nblocks > 1
                   THEN <<<<"slices", "median">>, <<"chunks", "median">>>>
                   ELSE << >>)
               \o <<<<"chunks", "start">>, <<"chunks", "stop">>>>
        ELSE (IF optstarts THEN <<<<"chunks", "start">>>> ELSE << >>)
               \o (IF optstops THEN <<<<"chunks", "stop">>>> ELSE << >>)

RECURSIVE RunPhases(_, _, _)
\* Runs the phases k.. until one reports a threshold.
RunPhases(st, phases, k) ==
    IF k > Len(phases) THEN st
    ELSE Bind(swap(st, phases[k][1], phases[k][2]), LAMBDA st2 :
           IF st2.stop THEN st2 ELSE RunPhases(st2, phases, k + 1))

\* The while loop of optimize: swap('create'), then the phases of the level.
\* swap_done is False only when swap('create') reports a threshold.
RunOptimize(level) ==
    LET st0 == [I |-> IndexArrays, T |-> << >>, last_tover |-> <<0, 1>>,
                log |-> << >>, stop |-> FALSE]
    IN  IF Phases(level) = << >>
        THEN st0 @@ [create_tmp |-> FALSE, swap_done |-> FALSE]
        ELSE Bind(swap(st0, "create", "None"), LAMBDA st1 :
               IF st1.stop
               THEN st1 @@ [create_tmp |-> TRUE, swap_done |-> FALSE]
               ELSE RunPhases(st1, Phases(level), 1)
                      @@ [create_tmp |-> TRUE, swap_done |-> TRUE])

\* A faulty optimize: an index of one slice is optimized as well.
optimize_oneSlice(level) ==
    IF nslices < 1
    THEN /\ last_tover' = <<0, 1>>
         /\ call' = [op |-> "optimize", level |-> level, log |-> << >>,
                     skipped |-> TRUE, stop |-> FALSE, error |-> "None"]
         /\ UNCHANGED <<params, column, idxvars, lrvars, nrows, nelements,
                        nelementsLR, dirtycache, limboundscache, starts,
                        lengths, tmpfilename>>
    ELSE \E fin \in { RunOptimize(level) } :
         /\ sorted' = fin.I.sorted
         /\ indices' = fin.I.indices
         /\ ranges' = fin.I.ranges
         /\ mranges' = fin.I.mranges
         /\ bounds' = fin.I.bounds
         /\ abounds' = fin.I.abounds
         /\ zbounds' = fin.I.zbounds
         /\ mbounds' = fin.I.mbounds
         /\ last_tover' = fin.last_tover
         /\ tmpfilename' = "None"
         /\ dirtycache' = IF fin.create_tmp /\ fin.swap_done
                          THEN TRUE ELSE dirtycache
         /\ call' = [op |-> "optimize", level |-> level, log |-> fin.log,
                     skipped |-> FALSE, stop |-> fin.stop,
                     error |-> "None"]
         /\ UNCHANGED <<params, column, lrvars, nrows, nelements,
                        nelementsLR, limboundscache, starts, lengths>>

\* A faulty optimize: the counter of the last row is reset, as append
\* resets it.
optimize_resetLR(level) ==
    IF nslices <= 1
    THEN /\ last_tover' = <<0, 1>>
         /\ call' = [op |-> "optimize", level |-> level, log |-> << >>,
                     skipped |-> TRUE, stop |-> FALSE, error |-> "None"]
         /\ UNCHANGED <<params, column, idxvars, lrvars, nrows, nelements,
                        nelementsLR, dirtycache, limboundscache, starts,
                        lengths, tmpfilename>>
    ELSE \E fin \in { RunOptimize(level) } :
         /\ sorted' = fin.I.sorted
         /\ indices' = fin.I.indices
         /\ ranges' = fin.I.ranges
         /\ mranges' = fin.I.mranges
         /\ bounds' = fin.I.bounds
         /\ abounds' = fin.I.abounds
         /\ zbounds' = fin.I.zbounds
         /\ mbounds' = fin.I.mbounds
         /\ last_tover' = fin.last_tover
         /\ tmpfilename' = "None"
         /\ dirtycache' = IF fin.create_tmp /\ fin.swap_done
                          THEN TRUE ELSE dirtycache
         /\ call' = [op |-> "optimize", level |-> level, log |-> fin.log,
                     skipped |-> FALSE, stop |-> fin.stop,
                     error |-> "None"]
         /\ nelementsLR' = 0
         /\ UNCHANGED <<params, column, lrvars, nrows, nelements,
                        limboundscache, starts, lengths>>

optimize(level) ==
    IF nslices <= 1
    THEN /\ last_tover' = <<0, 1>>
         /\ call' = [op |-> "optimize", level |-> level, log |-> << >>,
                     skipped |-> TRUE, stop |-> FALSE, error |-> "None"]
         /\ UNCHANGED <<params, column, idxvars, lrvars, nrows, nelements,
                        nelementsLR, dirtycache, limboundscache, starts,
                        lengths, tmpfilename>>
    ELSE \E fin \in { RunOptimize(level) } :
         /\ sorted' = fin.I.sorted
         /\ indices' = fin.I.indices
         /\ ranges' = fin.I.ranges
         /\ mranges' = fin.I.mranges
         /\ bounds' = fin.I.bounds
         /\ abounds' = fin.I.abounds
         /\ zbounds' = fin.I.zbounds
         /\ mbounds' = fin.I.mbounds
         /\ last_tover' = fin.last_tover
         /\ tmpfilename' = "None"
         /\ dirtycache' = IF fin.create_tmp /\ fin.swap_done
                          THEN TRUE ELSE dirtycache
         /\ call' = [op |-> "optimize", level |-> level, log |-> fin.log,
                     skipped |-> FALSE, stop |-> fin.stop,
                     error |-> "None"]
         /\ UNCHANGED <<params, column, lrvars, nrows, nelements,
                        nelementsLR, limboundscache, starts, lengths>>

\* The places where optimize can raise: in create_temps (mkstemp, before the
\* scratch file exists, or openFile, after it), at the start of the k-th
\* phase after swap('create'), and in cleanup_temps (tmpfile.close() or
\* os.remove).
Faults(level) ==
    { [at |-> at, k |-> 0] : at \in { "mkstemp", "openFile", "close", "remove" } }
    \cup { [at |-> "swap", k |-> k] : k \in 1..Len(Phases(level)) }

\* The optimization up to the place of the fault: nothing has run when
\* create_temps raises, the phases before the k-th have run when the k-th
\* raises, and all of them when cleanup_temps raises.
RunUntil(level, fault) ==
    LET st0 == [I |-> IndexArrays, T |-> << >>, last_tover |-> <<0, 1>>,
                log |-> << >>, stop |-> FALSE]
    IN  CASE fault.at \in { "mkstemp", "openFile" } -> st0
          [] fault.at = "swap" ->
                Bind(swap(st0, "create", "None"), LAMBDA st1 :
                  IF st1.stop THEN st1
                  ELSE RunPhases(st1, SubSeq(Phases(level), 1, fault.k - 1), 1))
          [] fault.at \in { "close", "remove" } ->
                Bind(RunOptimize(level), LAMBDA fin :
                  [I |-> fin.I, T |-> fin.T, last_tover |-> fin.last_tover,
                   log |-> fin.log, stop |-> FALSE])

\* optimize when one of its steps raises: there is no handler in optimize,
\* so the exception leaves it at once. The arrays are as the steps before
\* the fault left them, tmpfilename is set from mkstemp on and is reset only
\* by the last line of cleanup_temps, dirtycache is not assigned.
optimizeRaising(level, fault) ==
    /\ nslices > 1
    /\ Phases(level) # << >>
    /\ \E st \in { RunUntil(level, fault) } :
         /\ ~st.stop
         /\ sorted' = st.I.sorted
         /\ indices' = st.I.indices
         /\ ranges' = st.I.ranges
         /\ mranges' = st.I.mranges
         /\ bounds' = st.I.bounds
         /\ abounds' = st.I.abounds
         /\ zbounds' = st.I.zbounds
         /\ mbounds' = st.I.mbounds
         /\ last_tover' = st.last_tover
         /\ tmpfilename' = IF fault.at = "mkstemp" THEN tmpfilename ELSE "tmp"
         /\ call' = [op |-> "optimize", level |-> level, log |-> st.log,
                     skipped |-> FALSE, stop |-> FALSE, error |-> fault.at]
         /\ UNCHANGED <<params, column, lrvars, nrows, nelements,
                        nelementsLR, dirtycache, limboundscache, starts,
                        lengths>>

\* The optimization levels of the table layer: one of each row of the
\* table of levels (0-2, 3-5, 6-8, 9).
Levels == { 0, 3, 6, 9 }

OptimizeAt(levels) ==
    \E level \in levels : optimize(level) /\ UNCHANGED ncalls

CallOptimize == OptimizeAt(Levels)

Next ==
    \/ CallAppend
    \/ CallAppendLastRow
    \/ CallOptimize

\* The writers of the index, in any order.
Spec == Init /\ [][Next]_vars

SearchAppend == AppendFrom(SearchArrays)

SearchAppendLastRow == AppendLastRowFrom(SearchArrays)

\* The full optimization, the one that reorders the most.
SearchOptimize == OptimizeAt({ 9 })

SearchNext ==
    \/ SearchAppend
    \/ SearchAppendLastRow
    \/ SearchOptimize
    \/ CallSearch

\* The writers and the searches, in any order.
SearchSpec == Init /\ [][SearchNext]_vars

LastRowNext ==
    \/ SearchAppendLastRow
    \/ CallSearch

\* An index that holds a last row only, and the searches in it: all of a
\* search that is not skipped is then the lookup of searchLastRow.
LastRowSpec == Init /\ [][LastRowNext]_vars

CallOptimizeRaising ==
    \E level \in Levels : \E fault \in Faults(level) :
        optimizeRaising(level, fault) /\ UNCHANGED ncalls

FaultNext ==
    \/ CallAppend
    \/ CallOptimize
    \/ CallOptimizeRaising

\* The appends and the optimizations, any of which may raise.
FaultSpec == Init /\ [][FaultNext]_vars

OrderNext ==
    \/ CallAppend
    \/ SearchOptimize

\* The appends and the full optimization, on an index of one block and on
\* one of several blocks.
OrderSpec == BlocksInit /\ [][OrderNext]_vars

\* Every optimization level.
AllLevels == 0..9

LevelOptimize == OptimizeAt(AllLevels)

LevelNext ==
    \/ CallAppend
    \/ CallAppendLastRow
    \/ LevelOptimize

\* The writers of the index, the optimization at any level.
LevelSpec == Init /\ [][LevelNext]_vars

MiscountNext ==
    \/ CallAppend
    \/ CallAppendLastRow
    \/ CallAppendLastRowMiscounted

\* The appends, the last row with a right or a wrong number of rows.
MiscountSpec == Init /\ [][MiscountNext]_vars

\* The code that stands for NaN (testNaN) in the values of a float64 column:
\* numpy's sort leaves a NaN that ends the array at its end, as a value
\* above every number would be.
NaN == 999

\* Slices of a float64 column, one of which ends with NaN.
FloatArrays == { <<4, 5, 1, 3>>, <<8, 2, NaN, NaN>> }

FloatAppend == AppendFrom(FloatArrays)

FloatAppendLastRow == AppendLastRowFrom(FloatArrays)

FloatNext ==
    \/ FloatAppend
    \/ FloatAppendLastRow

\* The appends of a float64 column whose rows hold NaN.
FloatSpec == Init /\ [][FloatNext]_vars

\* A new index whose slices of 5 values end with a chunk of one value:
\* blocks of 2 slices, superblocks of 2 blocks.
ScenarioInit ==
    /\ chunksize = 2
    /\ slicesize = 5
    /\ blocksize = 10
    /\ superblocksize = 20
    /\ column = << >>
    /\ sorted = << >>
    /\ indices = << >>
    /\ ranges = << >>
    /\ mranges = << >>
    /\ bounds = << >>
    /\ abounds = << >>
    /\ zbounds = << >>
    /\ mbounds = << >>
    /\ sortedLR = [k \in 1..(2 + ((5 - 1) \div 2) + 5) |-> 0]
    /\ indicesLR = [k \in 1..5 |-> 0]
    /\ bebounds = << >>
    /\ nrows = 0
    /\ nelements = 0
    /\ nelementsLR = 0
    /\ dirtycache = TRUE
    /\ limboundscache = << >>
    /\ starts = << >>
    /\ lengths = << >>
    /\ last_tover = <<0, 1>>
    /\ tmpfilename = "None"
    /\ call = [op |-> "init"]
    /\ ncalls = [appendLastRow |-> 0, search |-> 0]
    /\ array = NewArray(0, 1)

\* The slices of the column 5, 2, 8, 1, 9, 3, 7, 4, 6, 0.
ScenarioArrays == { <<5, 2, 8, 1, 9>>, <<3, 7, 4, 6, 0>> }

ScenarioAppend == AppendFrom(ScenarioArrays)

\* Conditions on the column: x >= 3, x < 3, 3 <= x <= 7.
ScenarioQueries ==
    { <<<<"ge">>, <<3>>>>,
      <<<<"lt">>, <<3>>>>,
      <<<<"ge", "le">>, <<3, 7>>>> }

ScenarioSearch ==
    \E q \in ScenarioQueries, couldenablecache \in BOOLEAN :
        /\ ncalls.search < MaxSearches
        /\ search(getLookupRange(q[1], q[2]), couldenablecache)
        /\ ncalls' = [ncalls EXCEPT !.search = @ + 1]

ScenarioNext ==
    \/ ScenarioAppend
    \/ ScenarioSearch

\* The appends of slices of 5 values and the searches in them.  The limits
\* of the column type are far from every value of the column.
ScenarioSpec == ScenarioInit /\ [][ScenarioNext]_vars

\* The sizes of a chunk of the index of last rows.
ChunkSizes == { 1, 2, 3 }

\* A new index with slices of 6 values, in chunks of either size.
ChunkInit ==
    \E cs \in ChunkSizes :
        /\ chunksize = cs
        /\ slicesize = 6
        /\ blocksize = 12
        /\ superblocksize = 24
        /\ column = << >>
        /\ sorted = << >>
        /\ indices = << >>
        /\ ranges = << >>
        /\ mranges = << >>
        /\ bounds = << >>
        /\ abounds = << >>
        /\ zbounds = << >>
        /\ mbounds = << >>
        /\ sortedLR = [k \in 1..(2 + ((6 - 1) \div cs) + 6) |-> 0]
        /\ indicesLR = [k \in 1..6 |-> 0]
        /\ bebounds = << >>
        /\ nrows = 0
        /\ nelements = 0
        /\ nelementsLR = 0
        /\ dirtycache = TRUE
        /\ limboundscache = << >>
        /\ starts = << >>
        /\ lengths = << >>
        /\ last_tover = <<0, 1>>
        /\ tmpfilename = "None"
        /\ call = [op |-> "init"]
        /\ ncalls = [appendLastRow |-> 0, search |-> 0]
        /\ array = NewArray(0, 1)
    /\ array = NewArray(0, 1)

\* The rows of a partial slice: values 1, 3 and 5, with repeats, in
\* ascending order and in another.
ChunkArrays ==
    { a \in [1..5 -> { 1, 3, 5 }] : \A k \in 1..4 : a[k] <= a[k + 1] }
        \cup { <<5, 3, 1, 3, 5>>, <<3, 1, 5, 1, 3>> }

ChunkAppendLastRow == AppendLastRowFrom(ChunkArrays)

\* Keys whose limits fall in one chunk, in two, and around every value.
ChunkKeys == { <<2, 2>>, <<3, 4>>, <<0, 6>> }

ChunkSearch ==
    \E item \in ChunkKeys, couldenablecache \in BOOLEAN :
        /\ ncalls.search < MaxSearches
        /\ search(item, couldenablecache)
        /\ ncalls' = [ncalls EXCEPT !.search = @ + 1]

ChunkNext ==
    \/ ChunkAppendLastRow
    \/ ChunkSearch

\* An index that holds a last row only, of every length and every chunk
\* size, and the searches in it.
ChunkSpec == ChunkInit /\ [][ChunkNext]_vars

\* A new index whose superblocks hold 3 slices, in one block.
SuperInit ==
    /\ chunksize = 2
    /\ slicesize = 4
    /\ blocksize = 12
    /\ superblocksize = 12
    /\ column = << >>
    /\ sorted = << >>
    /\ indices = << >>
    /\ ranges = << >>
    /\ mranges = << >>
    /\ bounds = << >>
    /\ abounds = << >>
    /\ zbounds = << >>
    /\ mbounds = << >>
    /\ sortedLR = [k \in 1..(2 + ((4 - 1) \div 2) + 4) |-> 0]
    /\ indicesLR = [k \in 1..4 |-> 0]
    /\ bebounds = << >>
    /\ nrows = 0
    /\ nelements = 0
    /\ nelementsLR = 0
    /\ dirtycache = TRUE
    /\ limboundscache = << >>
    /\ starts = << >>
    /\ lengths = << >>
    /\ last_tover = <<0, 1>>
    /\ tmpfilename = "None"
    /\ call = [op |-> "init"]
    /\ ncalls = [appendLastRow |-> 0, search |-> 0]
    /\ array = NewArray(0, 1)

\* The appends that fill one superblock and start a second one.
SuperAppend ==
    \E arr \in InputArrays :
        /\ Len(sorted) < MaxSlices + 1
        /\ append(arr)
        /\ UNCHANGED ncalls

\* The keys by which chunks and slices are ordered.
Modes == { "start", "stop", "median" }

\* One swap of slices, as optimize runs it: the scratch arrays are those
\* of create_temps, and the scratch file stays.
CallSwapSlices ==
    \E mode \in Modes :
        /\ nslices > 1
        /\ \E IT \in { swap_slices(IndexArrays, create_temps, mode) } :
             /\ sorted' = IT[1].sorted
             /\ indices' = IT[1].indices
             /\ ranges' = IT[1].ranges
             /\ mranges' = IT[1].mranges
             /\ bounds' = IT[1].bounds
             /\ abounds' = IT[1].abounds
             /\ zbounds' = IT[1].zbounds
             /\ mbounds' = IT[1].mbounds
        /\ tmpfilename' = "tmp"
        /\ call' = [op |-> "swap_slices", mode |-> mode]
        /\ UNCHANGED <<params, column, lrvars, nrows, nelements, nelementsLR,
                       dirtycache, limboundscache, starts, lengths,
                       last_tover, ncalls>>

SuperNext ==
    \/ SuperAppend
    \/ CallSwapSlices
    \/ SearchOptimize

\* The appends, the swaps of slices and the full optimization of an index
\* with a superblock of 3 slices and one of fewer.
SuperSpec == SuperInit /\ [][SuperNext]_vars

\* One swap of chunks, as optimize runs it: the scratch arrays are those
\* of create_temps, and the scratch file stays.  The call record keeps the
\* scratch arrays the call leaves.
CallSwapChunks ==
    \E mode \in Modes :
        /\ nslices > 1
        /\ \E IT \in { swap_chunks(IndexArrays, create_temps, mode) } :
             /\ sorted' = IT[1].sorted
             /\ indices' = IT[1].indices
             /\ ranges' = IT[1].ranges
             /\ mranges' = IT[1].mranges
             /\ bounds' = IT[1].bounds
             /\ abounds' = IT[1].abounds
             /\ zbounds' = IT[1].zbounds
             /\ mbounds' = IT[1].mbounds
             /\ call' = [op |-> "swap_chunks", mode |-> mode,
                         tmp_sorted |-> IT[2].sorted,
                         tmp_indices |-> IT[2].indices]
        /\ tmpfilename' = "tmp"
        /\ UNCHANGED <<params, column, lrvars, nrows, nelements, nelementsLR,
                       dirtycache, limboundscache, starts, lengths,
                       last_tover, ncalls>>

BlockNext ==
    \/ CallAppend
    \/ CallAppendLastRow
    \/ CallSwapChunks

\* The appends and the swaps of chunks of an index with blocks of 2 slices.
BlockSpec == Init /\ [][BlockNext]_vars

\* A new index whose blocks hold 22 chunks: slices of 11 chunks, blocks of
\* 2 slices.
WideInit ==
    /\ chunksize = 2
    /\ slicesize = 22
    /\ blocksize = 44
    /\ superblocksize = 88
    /\ column = << >>
    /\ sorted = << >>
    /\ indices = << >>
    /\ ranges = << >>
    /\ mranges = << >>
    /\ bounds = << >>
    /\ abounds = << >>
    /\ zbounds = << >>
    /\ mbounds = << >>
    /\ sortedLR = [k \in 1..(2 + ((22 - 1) \div 2) + 22) |-> 0]
    /\ indicesLR = [k \in 1..22 |-> 0]
    /\ bebounds = << >>
    /\ nrows = 0
    /\ nelements = 0
    /\ nelementsLR = 0
    /\ dirtycache = TRUE
    /\ limboundscache = << >>
    /\ starts = << >>
    /\ lengths = << >>
    /\ last_tover = <<0, 1>>
    /\ tmpfilename = "None"
    /\ call = [op |-> "init"]
    /\ ncalls = [appendLastRow |-> 0, search |-> 0]
    /\ array = NewArray(0, 1)

\* Slices of 22 values: 1..21 and 24; 20 and 25..45; 2..23.  The first
\* chunk of the second begins between the last two chunks of the first.
WideArrays ==
    { [k \in 1..22 |-> IF k = 22 THEN 24 ELSE k],
      [k \in 1..22 |-> IF k = 1 THEN 20 ELSE k + 23],
      [k \in 1..22 |-> k + 1] }

WideAppend == AppendFrom(WideArrays)

WideNext ==
    \/ WideAppend
    \/ CallSwapChunks

\* The appends and the swaps of chunks of an index with blocks of 22
\* chunks.
WideSpec == WideInit /\ [][WideNext]_vars

\* Slices of the column, one of which holds one value only.
EntropyArrays == { <<5, 5, 5, 5>>, <<4, 5, 1, 3>>, <<8, 8, 2, 8>> }

EntropyAppend == AppendFrom(EntropyArrays)

EntropyNext ==
    \/ EntropyAppend
    \/ CallOptimize

\* The appends and the optimizations of an index in which the last slice
\* may end where the first one begins.
EntropySpec == Init /\ [][EntropyNext]_vars

\* A new index, and an Array of up to MaxRows rows next to it.
IterInit ==
    /\ chunksize = 2
    /\ slicesize = 4
    /\ blocksize = 8
    /\ superblocksize = 16
    /\ column = << >>
    /\ sorted = << >>
    /\ indices = << >>
    /\ ranges = << >>
    /\ mranges = << >>
    /\ bounds = << >>
    /\ abounds = << >>
    /\ zbounds = << >>
    /\ mbounds = << >>
    /\ sortedLR = [k \in 1..(2 + ((4 - 1) \div 2) + 4) |-> 0]
    /\ indicesLR = [k \in 1..4 |-> 0]
    /\ bebounds = << >>
    /\ nrows = 0
    /\ nelements = 0
    /\ nelementsLR = 0
    /\ dirtycache = TRUE
    /\ limboundscache = << >>
    /\ starts = << >>
    /\ lengths = << >>
    /\ last_tover = <<0, 1>>
    /\ tmpfilename = "None"
    /\ call = [op |-> "init"]
    /\ ncalls = [appendLastRow |-> 0, search |-> 0]
    /\ \E n \in 0..MaxRows, b \in 1..MaxRowsInBuf : array = NewArray(n, b)

\* Array._initLoop
initLoop(a) ==
    [a EXCEPT !.nrowsread = a.start, !.startb = a.start, !.row = -1,
              !.init = TRUE, !.nrow = a.start - a.step]

\* Array.__iter__: the attributes of the Array when it returns itself.
iter(a) ==
    IF ~a.init
    THEN initLoop([a EXCEPT !.start = 0, !.stop = a.nrows, !.step = 1])
    ELSE a

\* Array.read(start, stop, step) for 0 <= start <= stop <= nrows: the rows
\* xrange(start, stop, step).
read(start, stop, step) ==
    [k \in 1..((stop - start + step - 1) \div step) |->
        start + (k - 1) * step]

\* Array.next, when it returns a row: the Array after a chunk of rows is
\* read if the buffer is used up, and the row is taken from the buffer.
next(a) ==
    LET refill == a.row + 1 >= a.nrowsinbuf \/ a.row < 0
        stopb0 == a.startb + a.step * a.nrowsinbuf
        stopb  == IF stopb0 > a.stop THEN a.stop ELSE stopb0
        a1     == IF refill
                  THEN [a EXCEPT !.stopb = stopb,
                                 !.listarr = read(a.startb, stopb, a.step),
                                 !.row = -1,
                                 !.startb = stopb]
                  ELSE a
    IN  [a1 EXCEPT !.row = a1.row + 1, !.nrow = a1.nrow + a1.step,
                   !.nrowsread = a1.nrowsread + a1.step]

\* No attribute of the index is assigned.
IndexKept ==
    UNCHANGED <<chunksize, slicesize, blocksize, superblocksize, column,
                idxvars, lrvars, nrows, nelements, nelementsLR, dirtycache,
                limboundscache, starts, lengths, last_tover, tmpfilename,
                ncalls>>

\* A for-loop over the Array begins: iter(array) is called.  A loop that
\* was running is left as it is (break).
CallIter ==
    /\ array' = iter(array)
    /\ call' = [op |-> "__iter__", loop |-> "__iter__", yielded |-> << >>,
                stopped |-> FALSE]
    /\ IndexKept

\* A for-loop over Array.iterrows(start, stop, step) begins, for a range
\* 0 <= start <= stop <= nrows and a step of 1 or 2, which processRangeRead
\* returns as it is: iterrows begins the loop, and the iter() of the for
\* statement finds _init set.
CallIterrows ==
    \E start \in 0..array.nrows, step \in 1..2 :
        \E stop \in start..array.nrows :
            /\ array' = iter(initLoop([array EXCEPT !.start = start,
                                                    !.stop = stop,
                                                    !.step = step]))
            /\ call' = [op |-> "iterrows", loop |-> "iterrows",
                        yielded |-> << >>, stopped |-> FALSE]
            /\ IndexKept

\* The running for-loop asks for the next row: the row is yielded, or
\* StopIteration ends the loop.
CallNext ==
    /\ call.op \in { "__iter__", "iterrows", "next" }
    /\ ~call.stopped
    /\ IF array.nrowsread >= array.stop
       THEN /\ array' = [array EXCEPT !.init = FALSE]
            /\ call' = [op |-> "next", loop |-> call.loop,
                        yielded |-> call.yielded, stopped |-> TRUE]
       ELSE /\ array' = next(array)
            /\ call' = [op |-> "next", loop |-> call.loop,
                        yielded |-> Append(call.yielded,
                                           array'.listarr[array'.row + 1]),
                        stopped |-> FALSE]
    /\ IndexKept

IterNext ==
    \/ CallIter
    \/ CallIterrows
    \/ CallNext

\* The for-loops over an Array, each run to its end or left before it.
IterSpec == IterInit /\ [][IterNext]_vars

\* A call that assigns no attribute of the index.
IndexUntouched ==
    UNCHANGED <<params, column, idxvars, lrvars, nrows, nelements,
                nelementsLR, dirtycache, limboundscache, starts, lengths,
                last_tover, tmpfilename, ncalls>>

\* compute_overlaps on the index as it is; it reads ranges and nslices and
\* assigns nothing.
CallComputeOverlaps ==
    /\ nslices > 0
    /\ call' = [op |-> "compute_overlaps", type |-> "int8",
                ranges |-> ranges,
                result |-> compute_overlaps(ranges)]
    /\ IndexUntouched

\* The ranges of the slices of a column of strings of at most 2 bytes.
StringRanges ==
    { <<lo, hi>> \in { <<1>>, <<1, 0>>, <<2>> } \X { <<1>>, <<1, 0>>, <<2>> } :
          lo = hi \/ StrLess(lo, hi) }

\* compute_overlaps on an index of two or three slices of strings. That
\* index is another one than the index of the int8 column, which is still
\* new here.
CallComputeOverlapsS ==
    \E n \in 2..3 : \E rng \in [1..n -> StringRanges] :
        /\ nelements = 0
        /\ call' = [op |-> "compute_overlaps", type |-> "string",
                    ranges |-> AsArray(rng),
                    result |-> compute_overlapsS(AsArray(rng))]
        /\ IndexUntouched

OverlapNext ==
    \/ CallAppend
    \/ SearchOptimize
    \/ CallComputeOverlaps
    \/ CallComputeOverlapsS

\* The statistics of the overlaps, on every index that the appends and the
\* full optimization make, and on ranges of strings.
OverlapSpec == Init /\ [][OverlapNext]_vars

\* The limits of the queries: the ends of the type, their neighbours, and
\* values inside.
LookupLimits == { InfNeg, InfNeg + 1, -1, 0, 1, 5, InfPos - 1, InfPos }

\* The queries of one condition and those of two; and, with a few limits,
\* every pair of operators.
LookupQueries ==
    { [ops |-> <<op>>, limits |-> <<a>>] :
        op \in { "lt", "le", "eq", "ge", "gt" }, a \in LookupLimits }
    \cup
    { [ops |-> <<lop, uop>>, limits |-> <<a, b>>] :
        lop \in { "gt", "ge" }, uop \in { "lt", "le" },
        a \in LookupLimits, b \in LookupLimits }
    \cup
    { [ops |-> <<op1, op2>>, limits |-> l] :
        op1 \in { "lt", "le", "eq", "ge", "gt" },
        op2 \in { "lt", "le", "eq", "ge", "gt" },
        l \in { <<1, 5>>, <<5, 1>>, <<5, 5>> } }

\* The size in bytes of the items of a column of strings.
ItemSize == 2

Bytes == { 0, 1, ByteMax - 1, ByteMax }

\* The strings of at most ItemSize bytes.
StringInputs ==
    { AsArray(x) : x \in UNION { [1..n -> Bytes] : n \in 0..ItemSize } }

CallGetLookupRange ==
    \E q \in LookupQueries :
        /\ call' = [op |-> "getLookupRange", ops |-> q.ops,
                    limits |-> q.limits,
                    range |-> getLookupRange(q.ops, q.limits)]
        /\ IndexUntouched

CallNextAfter ==
    \E x \in LookupLimits, direction \in { -1, 0, 1 } :
        /\ call' = [op |-> "nextafter", x |-> x, direction |-> direction,
                    result |-> nextafter(x, direction)]
        /\ IndexUntouched

CallNextAfterS ==
    \E x \in StringInputs, direction \in { -1, 0, 1 } :
        /\ call' = [op |-> "nextafterS", x |-> x, direction |-> direction,
                    itemsize |-> ItemSize,
                    result |-> nextafterS(x, direction, ItemSize)]
        /\ IndexUntouched

FrontierNext ==
    \/ CallGetLookupRange
    \/ CallNextAfter
    \/ CallNextAfterS

\* The translation of the conditions of a query into a range of values.
FrontierSpec == Init /\ [][FrontierNext]_vars


-----------------------------------------------------------------------------
(* What the index promises, stated over the column it indexes.             *)

\* The number of rows r of the column with lo <= column[r] <= hi.
BruteCount(item) ==
    Cardinality({ r \in 1..Len(column) :
                    item[1] <= column[r] /\ column[r] <= item[2] })

\* x op limit
Satisfies(x, op, limit) ==
    CASE op = "lt" -> x < limit
      [] op = "le" -> x <= limit
      [] op = "eq" -> x = limit
      [] op = "ge" -> x >= limit
      [] op = "gt" -> x > limit

\* The number of rows of the column that satisfy every condition of a query.
PredicateCount(ops, limits) ==
    Cardinality({ r \in 1..Len(column) :
                    \A n \in 1..Len(ops) :
                        Satisfies(column[r], ops[n], limits[n]) })

\* Some phase of the last optimize moved values of the index.
Reordered ==
    /\ call.op = "optimize"
    /\ \E k \in 1..Len(call.log) : call.log[k][3]

\* The phase what (any mode) of the last optimize moved values.
Moved(what) ==
    /\ call.op = "optimize"
    /\ \E k \in 1..Len(call.log) : call.log[k][1] = what /\ call.log[k][3]

\* C1: after any sequence of append, appendLastRow and optimize, a search
\* for the key (lo, hi) returns the number of rows r of the column with
\* lo <= column[r] <= hi, for every key, those with lo > hi included.
C1_SearchCountsRows ==
    (call.op = "search" /\ call.item # EmptyItem)
        => call.tlen = BruteCount(call.item)

\* C2: the search for the item that getLookupRange makes of a query (one
\* operator, or a lower and an upper one, with their limits) returns the
\* number of rows that satisfy the query; a < x < b with a = b counts 0.
C2_RoundTrip ==
    call.op = "search"
        => \A q \in Queries :
               getLookupRange(q[1], q[2]) = call.item
                   => call.tlen = PredicateCount(q[1], q[2])

\* C3: every stored value stays paired with its row: sorted[i,j] is
\* column[indices[i,j]] for every full slice i and position j, and the k-th
\* sorted value of the last row is column[indicesLR[k]], k < nelementsLR.
C3_ValuesPaired ==
    /\ \A i \in 1..Len(sorted) : \A j \in 1..slicesize :
           sorted[i][j] = column[indices[i][j] + 1]
    /\ \A k \in 1..nelementsLR :
           sortedLR[Len(bebounds) + k] = column[indicesLR[k] + 1]

\* An optimize moved values while a last row was outstanding.
C3_Witness ==
    /\ Reordered
    /\ nelementsLR > 0
    /\ Len(sorted) = MaxSlices

RECURSIVE Flatten(_)
\* The rows of a 2-D array, one after the other.
Flatten(m) == IF m = << >> THEN << >> ELSE Head(m) \o Flatten(Tail(m))

\* indices of the full slices, then indicesLR[0..nelementsLR)
AllIndices == Flatten(indices) \o SubSeq(indicesLR, 1, nelementsLR)

\* C4: the values of indices (all full slices) together with
\* indicesLR[0..nelementsLR) are a permutation of 0..nelements-1: every row
\* of the column appears exactly once.
C4_Permutation ==
    /\ Len(AllIndices) = nelements
    /\ { AllIndices[k] : k \in 1..Len(AllIndices) } = 0..(nelements - 1)

\* swap_slices moved whole slices while a last row was outstanding.
C4_Witness ==
    /\ Moved("slices")
    /\ nelementsLR > 0

\* C5: every full slice sorted[i] is non-decreasing, after append and after
\* optimize at any level, a phase that stops early included.
C5_SlicesSorted ==
    \A i \in 1..Len(sorted) : \A j \in 1..(slicesize - 1) :
        sorted[i][j] <= sorted[i][j + 1]

\* An optimize whose last phase moved chunks and then met a threshold
\* before the phases of its level were over.
C5_Witness ==
    /\ call.op = "optimize"
    /\ Len(call.log) \in 2..5
    /\ call.log[2] = <<"chunks", "median", TRUE>>
    /\ call.log[Len(call.log)][1] = "chunks"
    /\ call.log[Len(call.log)][3]

\* C6: the derived arrays agree with sorted for every full slice i:
\* ranges[i] = (sorted[i,0], sorted[i,ss-1]); bounds[i,k] = sorted[i,(k+1)*cs];
\* abounds[i*ncs+j] = sorted[i,j*cs]; zbounds[i*ncs+j] = sorted[i,(j+1)*cs-1];
\* mbounds[i*ncs+j] = sorted[i,j*cs+cs/2]; mranges[i] = mbounds[i*ncs+ncs/2].
C6_DerivedArrays ==
    LET cs  == chunksize
        ncs == nchunkslice
    IN  /\ Len(ranges) = Len(sorted)
        /\ Len(bounds) = Len(sorted)
        /\ Len(mranges) = Len(sorted)
        /\ Len(abounds) = Len(sorted) * ncs
        /\ Len(zbounds) = Len(sorted) * ncs
        /\ Len(mbounds) = Len(sorted) * ncs
        /\ \A i \in 0..(Len(sorted) - 1) :
             /\ ranges[i + 1] = <<sorted[i + 1][1], sorted[i + 1][slicesize]>>
             /\ Len(bounds[i + 1]) = nbounds_inslice
             /\ \A k \in 0..(nbounds_inslice - 1) :
                    bounds[i + 1][k + 1] = sorted[i + 1][(k + 1) * cs + 1]
             /\ \A j \in 0..(ncs - 1) :
                    /\ abounds[i * ncs + j + 1] = sorted[i + 1][j * cs + 1]
                    /\ zbounds[i * ncs + j + 1] = sorted[i + 1][(j + 1) * cs]
                    /\ mbounds[i * ncs + j + 1]
                           = sorted[i + 1][j * cs + (cs \div 2) + 1]
             /\ mranges[i + 1] = mbounds[i * ncs + (ncs \div 2) + 1]

\* An optimize that moved whole slices and chunks.
C6_Witness ==
    /\ Moved("slices")
    /\ Moved("chunks")
    /\ Len(call.log) >= 5

\* C7: a search over the full range (infType(-1), infType(+1)) returns
\* nelements, and a search for (v, v), v a value that was never appended,
\* returns 0.
C7_FullRangeAndUnseen ==
    call.op = "search" =>
        /\ call.item = <<infType(-1), infType(1)>> => call.tlen = nelements
        /\ (/\ call.item # EmptyItem
            /\ call.item[1] = call.item[2]
            /\ \A r \in 1..Len(column) : column[r] # call.item[1])
               => call.tlen = 0

\* A search for a value that is in no row returned 0 on an index of full
\* slices and a last row, and the limits cache still holds the entry of a
\* search over the full range, whose lengths add up to nelements.
C7_Witness ==
    /\ call.op = "search"
    /\ call.item = <<4, 4>>
    /\ call.tlen = 0
    /\ Len(sorted) >= 2
    /\ nelementsLR > 0
    /\ \E n \in 1..Len(limboundscache) :
           /\ limboundscache[n].key = <<infType(-1), infType(1)>>
           /\ SumSeq([k \in 1..Len(limboundscache[n].value)
                         |-> limboundscache[n].value[k][3]]) = nelements

\* starts and lengths of a lookup of item in the index as it is.
FreshStarts(item) ==
    [k \in 1..nrows |->
        IF k <= Len(sorted) THEN searchBin(k, item)[1]
        ELSE searchLastRow(item)[1]]

FreshLengths(item) ==
    [k \in 1..nrows |->
        IF k <= Len(sorted)
        THEN searchBin(k, item)[2] - searchBin(k, item)[1]
        ELSE searchLastRow(item)[2] - searchLastRow(item)[1]]

\* C8: a search after append, appendLastRow or an optimize that reordered
\* anything never answers from an entry of the limits cache stored before
\* that operation: whenever the cache may answer (dirtycache is off), each
\* of its entries is what a lookup in the index as it is now stores, and no
\* search that found the cache dirty was answered by the cache.
C8_NoStaleEntry ==
    /\ ~dirtycache =>
           \A n \in 1..Len(limboundscache) :
               limboundscache[n].value
                   = Startlengths(FreshStarts(limboundscache[n].key),
                                  FreshLengths(limboundscache[n].key))
    /\ call.op = "search" => ~(call.hit /\ call.stale)

\* A search found the cache dirty while it held an entry for the very key,
\* on an index that optimize had reordered; it looked the key up again and
\* stored the new entry.
C8_Witness ==
    /\ call.op = "search"
    /\ call.stale
    /\ ~call.hit
    /\ call.tlen > 0
    /\ Len(sorted) = MaxSlices
    /\ sorted[1] # sorted[2]
    /\ \E n \in 1..Len(limboundscache) : limboundscache[n].key = call.item

\* nelementsLR is 0 exactly when the column has no trailing partial slice.
NoPartialIff ==
    nelementsLR = 0 <=> Len(column) = Len(sorted) * slicesize

\* C9 as stated: every append(values) increases nelements by exactly
\* len(values), a preceding appendLastRow included, and nelementsLR = 0 if
\* and only if no trailing partial slice exists.
C9_AppendAddsAll ==
    [][/\ call'.op = "append" => nelements' = nelements + call'.n
       /\ NoPartialIff']_vars

\* C9: append(values) leaves nelements = (full slices) * slicesize, that is
\* it increases nelements by len(values) minus the nelementsLR of the last
\* row outstanding before it (the values of that row are among the values
\* appended); and nelementsLR = 0 if and only if no trailing partial slice
\* exists.
C9_AppendAddsNew ==
    [][/\ call'.op = "append" =>
              /\ nelements' = nelements + call'.n - nelementsLR
              /\ nelements' = Len(sorted') * slicesize
              /\ nelements' = Len(column')
       /\ NoPartialIff']_vars

\* The first append, made while a last row was outstanding.
C9_Witness ==
    /\ call.op = "append"
    /\ Len(sorted) = 1
    /\ ncalls.appendLastRow = 1
    /\ nelementsLR = 0
    /\ nelements = slicesize

\* C10: nrows = (rows of sorted) + (1 if nelementsLR > 0 else 0) and
\* nelements = (rows of sorted) * slicesize + nelementsLR.
C10_Counters ==
    /\ nrows = Len(sorted) + (IF nelementsLR > 0 THEN 1 ELSE 0)
    /\ nelements = Len(sorted) * slicesize + nelementsLR

\* appendLastRow has just added a last row after full slices.
C10_Witness ==
    /\ call.op = "appendLastRow"
    /\ call.error = "None"
    /\ Len(sorted) >= 2
    /\ nelementsLR > 0
    /\ nrows = Len(sorted) + 1

\* C11: for one operator and one limit a, getLookupRange returns
\* (-inf, nextafter(a,-1)) for lt, (-inf, a) for le, (nextafter(a,+1), +inf)
\* for gt, (a, +inf) for ge and (a, a) for eq, -inf and +inf being infType
\* of the column type with sign -1 and +1.
C11_OneSided ==
    (call.op = "getLookupRange" /\ Len(call.limits) = 1)
    => LET a  == call.limits[1]
           op == call.ops[1]
       IN  /\ op = "lt" => call.range = <<infType(-1), nextafter(a, -1)>>
           /\ op = "le" => call.range = <<infType(-1), a>>
           /\ op = "gt" => call.range = <<nextafter(a, 1), infType(1)>>
           /\ op = "ge" => call.range = <<a, infType(1)>>
           /\ op = "eq" => call.range = <<a, a>>

C11_Witness ==
    /\ call.op = "getLookupRange"
    /\ call.ops = <<"le">>
    /\ call.limits = <<5>>
    /\ call.range = <<InfNeg, 5>>

\* C12: for two operators and the limits (a, b), getLookupRange returns the
\* empty tuple when a > b, and otherwise (nextafter(a,+1), nextafter(b,-1))
\* for (gt, lt), (a, nextafter(b,-1)) for (ge, lt), (nextafter(a,+1), b) for
\* (gt, le) and (a, b) for (ge, le).
C12_TwoSided ==
    (/\ call.op = "getLookupRange"
     /\ Len(call.limits) = 2
     /\ call.ops[1] \in { "gt", "ge" }
     /\ call.ops[2] \in { "lt", "le" })
    => LET a == call.limits[1]
           b == call.limits[2]
       IN  IF a > b
           THEN call.range = << >>
           ELSE /\ call.ops = <<"gt", "lt">>
                     => call.range = <<nextafter(a, 1), nextafter(b, -1)>>
                /\ call.ops = <<"ge", "lt">>
                     => call.range = <<a, nextafter(b, -1)>>
                /\ call.ops = <<"gt", "le">>
                     => call.range = <<nextafter(a, 1), b>>
                /\ call.ops = <<"ge", "le">>
                     => call.range = <<a, b>>

\* The query 5 < x <= 1 has been translated into the empty tuple.
C12_Witness ==
    /\ call.op = "getLookupRange"
    /\ call.ops = <<"gt", "le">>
    /\ call.limits = <<5, 1>>
    /\ call.range = << >>

\* C13: whenever search is given a key with hi < lo, or the empty key, it
\* sets every entry of lengths to 0 and returns 0.
C13_EmptyQuery ==
    (/\ call.op = "search"
     /\ IF call.item = EmptyItem THEN TRUE ELSE call.item[2] < call.item[1])
    => /\ call.tlen = 0
       /\ \A k \in 1..Len(lengths) : lengths[k] = 0

\* C14: for an integer column, nextafter(x, +1) is x+1 and nextafter(x, -1)
\* is x-1, except at the bounds of the type, where it returns the bound
\* itself: the result is always a value of the column type.
C14_IntSaturates ==
    (call.op = "nextafter" /\ call.direction # 0)
    => /\ call.direction > 0
            => call.result = (IF call.x = InfPos THEN InfPos ELSE call.x + 1)
       /\ call.direction < 0
            => call.result = (IF call.x = InfNeg THEN InfNeg ELSE call.x - 1)
       /\ call.result \in InfNeg..InfPos

RECURSIVE StrValue(_)
\* The place of a string among the strings of its length, in lexicographic
\* order: its bytes read as the digits of a number, the first one the highest.
StrValue(s) ==
    IF s = << >> THEN 0
    ELSE StrValue(SubSeq(s, 1, Len(s) - 1)) * (ByteMax + 1) + s[Len(s)]

\* C15: for byte strings, nextafter returns the lexicographic successor
\* (direction +1) or predecessor (direction -1) of x right-padded with \x00
\* to itemsize bytes, and saturates: the successor of the all-\xff string is
\* the all-\xff string, the predecessor of the all-\x00 string the all-\x00
\* string.
C15_StringNeighbour ==
    (call.op = "nextafterS" /\ call.direction # 0)
    => LET p == Padded(call.x, ItemSize)
       IN  /\ Len(call.result) = ItemSize
           /\ call.direction > 0
                => IF p = Repeat(ByteMax, ItemSize)
                   THEN call.result = p
                   ELSE StrValue(call.result) = StrValue(p) + 1
           /\ call.direction < 0
                => IF p = Repeat(0, ItemSize)
                   THEN call.result = p
                   ELSE StrValue(call.result) = StrValue(p) - 1

\* The call is nextafter(x, +1) for an x that is not the maximum of its type.
UpFromBelowMax ==
    /\ call.op \in { "nextafter", "nextafterS" }
    /\ call.direction = 1
    /\ IF call.op = "nextafter"
       THEN call.x # InfPos
       ELSE Padded(call.x, ItemSize) # Repeat(ByteMax, ItemSize)

\* The result of nextafter(x, +1) is greater than x.
GreaterThanX ==
    IF call.op = "nextafter"
    THEN call.result > call.x
    ELSE StrLess(call.x, call.result)

FracLeq(a, b) == a[1] * b[2] <= b[1] * a[2]

\* compute_overlaps("", 0)[2] on the ranges rng
toverlap(rng) == compute_overlaps(rng).toverlap

\* C17: optimization never increases overlap: the toverlap that
\* compute_overlaps finds after optimize(level) returns is less than or equal
\* to the one it finds before the call, for every level and every content of
\* the index, also when a phase ends the run for too little improvement.
C17_OverlapNotIncreased ==
    [][(call'.op = "optimize" /\ ~call'.skipped)
           => FracLeq(toverlap(ranges'), toverlap(ranges))]_vars

\* C18: whenever optimize has created the scratch file, the file is closed
\* and removed and tmpfilename is reset when optimize exits, on every exit
\* path: normal completion, early termination on a threshold, and an error
\* raised inside a swap phase.
C18_ScratchRemoved ==
    (/\ call.op = "optimize"
     /\ call.log # << >>
     /\ call.error \in { "None", "swap" })
    => tmpfilename = "None"

\* C19: if the creation or the cleanup of the scratch file fails during
\* optimize, the optimization aborts and sorted, indices, ranges, mranges,
\* bounds, abounds, zbounds and mbounds are all as they were before the call.
C19_ScratchFailureRestores ==
    [][(/\ call'.op = "optimize"
        /\ call'.error \in { "mkstemp", "openFile", "close", "remove" })
           => UNCHANGED idxvars]_vars

\* The phases that the last optimize ran after swap('create'), in order.
PhasesRun ==
    [k \in 1..(Len(call.log) - 1) |-> <<call.log[k + 1][1], call.log[k + 1][2]>>]

FullOrder ==
    <<<<"chunks", "median">>, <<"slices", "median">>, <<"chunks", "median">>,
      <<"chunks", "start">>, <<"chunks", "stop">>>>

OneBlockOrder ==
    <<<<"chunks", "median">>, <<"chunks", "start">>, <<"chunks", "stop">>>>

\* The last call is an optimize(9) of an index with more than one full slice.
FullOptimizeDone ==
    /\ call.op = "optimize"
    /\ ~call.skipped
    /\ call.error = "None"

\* The phases run are the first ones of order, all of them unless the last
\* one run reported a threshold.
RanInOrder(order) ==
    /\ IsPrefix(PhasesRun, order)
    /\ PhasesRun # order => call.stop

\* C20 as stated: optimize(9) on an index with more than one full slice runs
\* swap_chunks(median), swap_slices(median), swap_chunks(median),
\* swap_chunks(start), swap_chunks(stop) in this order, stopping at the first
\* phase that reports a threshold, whatever the index.
C20_FullOrder ==
    FullOptimizeDone => RanInOrder(FullOrder)

\* C20, amended: that is the order for an index of more than one block; for
\* an index of one block the order is swap_chunks(median),
\* swap_chunks(start), swap_chunks(stop), without swap_slices(median) and
\* the second swap_chunks(median).
C20_OrderByBlocks ==
    FullOptimizeDone
    => RanInOrder(IF nblocks > 1 THEN FullOrder ELSE OneBlockOrder)

\* An optimize(9) of an index of one block went from swap_chunks(median)
\* straight to swap_chunks(start).
C20_Witness ==
    /\ FullOptimizeDone
    /\ nblocks = 1
    /\ Len(PhasesRun) >= 2
    /\ PhasesRun[2] = <<"chunks", "start">>

\* C21: optimize(level) with 3 <= level <= 5 runs only swap_chunks(start);
\* with 6 <= level <= 8 it runs swap_chunks(start) and then
\* swap_chunks(stop), the second only if the first reported no threshold;
\* no median phase and no swap_slices phase is run at these levels.
C21_StartsAndStops ==
    (FullOptimizeDone /\ call.level \in 3..8)
    => /\ call.level <= 5 => RanInOrder(<<<<"chunks", "start">>>>)
       /\ call.level >= 6
            => RanInOrder(<<<<"chunks", "start">>, <<"chunks", "stop">>>>)
       /\ \A k \in 1..Len(PhasesRun) :
              PhasesRun[k][1] = "chunks" /\ PhasesRun[k][2] # "median"

\* An optimize(7) has run swap_chunks(start) and then swap_chunks(stop).
C21_Witness ==
    /\ FullOptimizeDone
    /\ call.level = 7
    /\ PhasesRun = <<<<"chunks", "start">>, <<"chunks", "stop">>>>

\* C22: optimize(level) with level in {0, 1, 2} runs no swap phase, creates
\* no scratch file, and leaves sorted, indices, every bounds array, the
\* last-row arrays and dirtycache unchanged.
C22_LowLevelsNoOp ==
    [][(call'.op = "optimize" /\ call'.level \in 0..2)
           => /\ call'.log = << >>
              /\ tmpfilename' = tmpfilename
              /\ UNCHANGED <<idxvars, lrvars, dirtycache>>]_vars

\* An optimize(1) has returned on an index of four slices and a last row.
C22_Witness ==
    /\ call.op = "optimize"
    /\ call.level = 1
    /\ ~call.skipped
    /\ Len(sorted) = 4
    /\ nelementsLR > 0

\* C23: optimize on an index with at most one complete slice (nelements /
\* slicesize <= 1, with or without a last row) returns without creating a
\* scratch file and without changing any index array or dirtycache, for
\* every level.
C23_SingleSliceSkipped ==
    [][(call'.op = "optimize" /\ nelements \div slicesize <= 1)
           => /\ call'.skipped
              /\ call'.log = << >>
              /\ tmpfilename' = tmpfilename
              /\ UNCHANGED <<idxvars, lrvars, dirtycache>>]_vars

\* An optimize(9) has returned on an index of one slice and a last row.
C23_Witness ==
    /\ call.op = "optimize"
    /\ call.level = 9
    /\ call.skipped
    /\ Len(sorted) = 1
    /\ nelementsLR > 0

\* C24: after any sequence of append and appendLastRow, opening the index
\* from its arrays on disk gives the nrows, nelements and nelementsLR that
\* the index had in memory, and its bebounds when there is a last row; after
\* an appendLastRow followed by a full append the reopened index has
\* nelementsLR = 0 and nelements = nrows * slicesize.
C24_ReopenRoundTrip ==
    /\ Reopen.nrows = nrows
    /\ Reopen.nelements = nelements
    /\ Reopen.nelementsLR = nelementsLR
    /\ nelementsLR > 0 => Reopen.bebounds = bebounds

\* C25: in every state reachable by append and appendLastRow, the last cell
\* of indicesLR is the nelementsLR of the index in memory (0 after a full
\* append).
C25_LastCellCounts ==
    indicesLR[Len(indicesLR)] = nelementsLR

\* The number of cells of a that hold x.
CountOf(a, x) == Cardinality({ k \in 1..Len(a) : a[k] = x })

\* v holds the values of a in ascending order.
SortedValuesOf(v, a) ==
    /\ Len(v) = Len(a)
    /\ \A k \in 1..(Len(v) - 1) : v[k] <= v[k + 1]
    /\ \A k \in 1..Len(a) : CountOf(v, a[k]) = CountOf(a, a[k])

\* appendLastRow has just stored a last row.
LastRowStored ==
    /\ call.op = "appendLastRow"
    /\ call.error = "None"

\* The sorted last-row values are sortedLR[offset : offset + nelementsLR] and
\* the cells before offset are begin, the first value of every further
\* chunk, and end.
LastRowLayout(offset) ==
    LET v == SubSeq(sortedLR, offset + 1, offset + nelementsLR)
    IN  /\ SortedValuesOf(v, LastRowValues)
        /\ SubSeq(sortedLR, 1, offset)
               = Append(Strided(v, 0, chunksize), v[Len(v)])

\* C26 as stated: after appendLastRow with n values (0 < n < slicesize), the
\* sorted values start at the fixed offset 2 + (ss/cs - 1) of sortedLR for
\* every n, and the cells before that offset hold begin, the chunk bounds
\* and end of those values.
C26_FixedOffset ==
    LastRowStored
    => LastRowLayout(2 + ((slicesize \div chunksize) - 1))

\* C26, amended: the sorted values start at the offset len(bebounds), which
\* is 1 + ceil(n / cs), and the cells before it hold bebounds: begin, the
\* first value of every further chunk, and end.
C26_OffsetAfterBounds ==
    LastRowStored
    => /\ Len(bebounds) = 1 + ((nelementsLR + chunksize - 1) \div chunksize)
       /\ LastRowLayout(Len(bebounds))
       /\ SubSeq(sortedLR, 1, Len(bebounds)) = bebounds

\* A last row of one value has been stored: the value is the third cell of
\* sortedLR, after begin and end.
C26_Witness ==
    /\ LastRowStored
    /\ nelementsLR = 1
    /\ Len(bebounds) = 2
    /\ sortedLR[3] = column[Len(column)]

\* C27: with no append, appendLastRow or optimize in between, a second
\* search with the same key, served from the limits cache, returns the total
\* of the first (uncached) search, and leaves the same lengths for every
\* slice and the same starts for every slice with a non-zero length.
C27_CacheRepeats ==
    [][(/\ call.op = "search"
        /\ ~call.hit
        /\ call'.op = "search"
        /\ call'.hit
        /\ call'.item = call.item)
           => /\ call'.tlen = call.tlen
              /\ lengths' = lengths
              /\ \A k \in 1..Len(lengths) :
                     lengths[k] # 0 => starts'[k] = starts[k]]_vars

\* ranges[i,1] > ranges[j,0], for the 1-based slices i and j of the call
RangesOverlap(c, i, j) ==
    IF c.type = "string"
    THEN StrLess(c.ranges[j][1], c.ranges[i][2])
    ELSE c.ranges[i][2] > c.ranges[j][1]

\* The number of pairs of slices i < j of the call that overlap, j - i being
\* one of dists.
PairsAt(c, dists) ==
    Cardinality({ p \in (1..Len(c.ranges)) \X (1..Len(c.ranges)) :
                    /\ p[1] < p[2]
                    /\ p[2] - p[1] \in dists
                    /\ RangesOverlap(c, p[1], p[2]) })

\* What C28 says of the result of the call c.
OverlapsCounted(c) ==
    LET n == Len(c.ranges)
    IN  /\ c.result.noverlaps = PairsAt(c, 1..n)
        /\ Len(c.result.multiplicity) = n
        /\ \A k \in 0..(n - 1) :
               c.result.multiplicity[k + 1] = PairsAt(c, { k })
        /\ SumSeq(c.result.multiplicity) = c.result.noverlaps
        /\ c.type = "string" => c.result.toverlap = <<-1, 1>>

C29_BadPairRejected ==
    (call.op = "getLookupRange" /\ Len(call.ops) = 2)
    => IF call.ops[1] \in { "gt", "ge" } /\ call.ops[2] \in { "lt", "le" }
       THEN call.range # AssertionError
       ELSE call.range = AssertionError

\* An upper operator before a lower one has been rejected.
C29_Witness ==
    /\ call.op = "getLookupRange"
    /\ call.ops = <<"lt", "gt">>
    /\ call.limits = <<1, 5>>
    /\ call.range = AssertionError

\* C30: appendLastRow(values, total_rows) with len(values) different from
\* total_rows - (rows of sorted) * slicesize fails with an assertion error
\* before anything is written: indicesLR, sortedLR, bebounds, nrows,
\* nelements, nelementsLR and dirtycache are unchanged.
C30_MiscountWritesNothing ==
    [][(/\ call'.op = "appendLastRow"
        /\ call'.nvalues # call'.tnrows - Len(sorted) * slicesize)
       => /\ call'.error = "AssertionError"
          /\ UNCHANGED <<indicesLR, sortedLR, bebounds, nrows, nelements,
                         nelementsLR, dirtycache>>]_vars

\* A miscounted appendLastRow has failed on an index that holds a slice and
\* a last row.
C30_Witness ==
    /\ call.op = "appendLastRow"
    /\ call.error = "AssertionError"
    /\ call.nvalues # call.tnrows - Len(sorted) * slicesize
    /\ Len(sorted) > 0
    /\ nelementsLR > 0

\* C31: append and appendLastRow reject an input array containing NaN: no
\* NaN is ever stored in sorted, sortedLR or any bounds array in any
\* reachable state.  Index.append and Index.appendLastRow test nothing: the
\* NaN of the input is stored.
C31_NoNaNStored ==
    /\ \A i \in 1..Len(sorted) : \A j \in 1..Len(sorted[i]) :
           sorted[i][j] # NaN
    /\ \A j \in 1..Len(sortedLR) : sortedLR[j] # NaN
    /\ \A j \in 1..Len(bebounds) : bebounds[j] # NaN
    /\ \A i \in 1..Len(bounds) : \A j \in 1..Len(bounds[i]) :
           bounds[i][j] # NaN
    /\ \A i \in 1..Len(ranges) : ranges[i][1] # NaN /\ ranges[i][2] # NaN
    /\ \A j \in 1..Len(abounds) : abounds[j] # NaN
    /\ \A j \in 1..Len(zbounds) : zbounds[j] # NaN
    /\ \A j \in 1..Len(mbounds) : mbounds[j] # NaN

\* The column 5, 2, 8, 1, 9, 3, 7, 4, 6, 0 has been appended in two slices
\* and the condition x >= 3 has just been searched.
ScenarioDone ==
    /\ column = <<5, 2, 8, 1, 9, 3, 7, 4, 6, 0>>
    /\ call.op = "search"
    /\ call.item = <<3, InfPos>>

\* C32 as stated: with chunksize 2 and slicesize 5, after append([5,2,8,1,9])
\* and append([3,7,4,6,0]), ranges = [(1,9),(0,7)], bounds[0] = [5,8], and
\* the search for the range of x >= 3 returns 7.
C32_ScenarioAsStated ==
    ScenarioDone
    => /\ ranges = << <<1, 9>>, <<0, 7>> >>
       /\ bounds[1] = <<5, 8>>
       /\ call.tlen = 7

\* C32: in that scenario ranges = [(1,9),(0,7)] and the search returns 7,
\* and bounds[0] is [5,9]: the first values of the chunks [5,8] and [9] of
\* the sorted slice [1,2,5,8,9].
C32_Scenario ==
    ScenarioDone
    => /\ ranges = << <<1, 9>>, <<0, 7>> >>
       /\ bounds[1] = <<5, 9>>
       /\ call.tlen = 7

\* The scenario has been run, the search answered by the lookup.
C32_Witness ==
    /\ ScenarioDone
    /\ ~call.hit
    /\ call.tlen = 7

\* The rows of the last row whose value is below v, and not above v.
CountBelow(v) ==
    Cardinality({ k \in 1..Len(LastRowValues) : LastRowValues[k] < v })

CountUpTo(v) ==
    Cardinality({ k \in 1..Len(LastRowValues) : LastRowValues[k] <= v })

\* The keys (lo, hi) with lo <= hi around the values of the column.
OrderedKeys == { key \in (0..6) \X (0..6) : key[1] <= key[2] }

\* C33: for every last-row content of n values (0 < n < slicesize), every
\* chunksize and every key (lo, hi) with lo <= hi, searchLastRow returns
\* (start, stop), start the number of last-row values < lo and stop the
\* number of last-row values <= hi, whichever short-circuits and chunk
\* lookups are taken; search stores them as starts[-1] and lengths[-1].
C33_LastRowCounts ==
    nelementsLR > 0
    => /\ \A key \in OrderedKeys :
              searchLastRow(key) = <<CountBelow(key[1]), CountUpTo(key[2])>>
       /\ (call.op = "search" /\ ~call.hit)
          => /\ starts[Len(starts)] = CountBelow(call.item[1])
             /\ starts[Len(starts)] + lengths[Len(lengths)]
                    = CountUpTo(call.item[2])

\* Both limits have been looked up in the one chunk 1, 3, 3 of the last row
\* 1, 3, 3, 5, 5.
C33_Witness ==
    /\ chunksize = 3
    /\ column = <<1, 3, 3, 5, 5>>
    /\ call.op = "search"
    /\ ~call.hit
    /\ call.item = <<3, 4>>
    /\ starts = <<1>>
    /\ lengths = <<2>>

\* The positions (1-based) of the full slices of superblock sb.
SuperblockSlices(sb) ==
    { k \in 1..Len(sorted) :
          (k - 1) \div (superblocksize \div slicesize) = sb }

\* The key of the slice that has ranges rg and median mr.
SliceKey(mode, rg, mr) ==
    CASE mode = "start"  -> rg[1]
      [] mode = "stop"   -> rg[2]
      [] mode = "median" -> mr

\* C34: swap_slices(mode) reorders slices only within a superblock: for
\* every superblock, a last one with fewer slices included, the slices at
\* its positions are afterwards a permutation of the slices that were
\* there, in non-decreasing order of the key of mode, and no slice comes
\* from or goes to another superblock.  (The threshold skips a superblock
\* of so few slices only if it is in order already.)
C34_WithinSuperblock ==
    [][call'.op = "swap_slices"
       => \A sb \in 0..(nsuperblocks - 1) :
            /\ { <<sorted[k], indices[k]>> : k \in SuperblockSlices(sb) }
                 = { <<sorted'[k], indices'[k]>> : k \in SuperblockSlices(sb) }
            /\ \A k \in SuperblockSlices(sb) :
                 (k + 1) \in SuperblockSlices(sb)
                 => SliceKey(call'.mode, ranges'[k], mranges'[k])
                      <= SliceKey(call'.mode, ranges'[k + 1], mranges'[k + 1])]_vars

\* The positions (1-based) of the full slices of block b.
BlockSlices(b) ==
    { k \in 1..Len(sorted) : (k - 1) \div nslicesblock = b }

\* The (value, original row) pairs that the slices of block b hold in the
\* arrays S (values) and X (rows).
PairsIn(S, X, b) ==
    { <<S[k][j], X[k][j]>> : k \in BlockSlices(b), j \in 1..slicesize }

\* The chunks (values, rows) that the slices of block b hold in S and X.
ChunksIn(S, X, b) ==
    { <<PySlice(S[k], c * chunksize, (c + 1) * chunksize),
        PySlice(X[k], c * chunksize, (c + 1) * chunksize)>> :
          k \in BlockSlices(b), c \in 0..(nchunkslice - 1) }

\* C35: swap_chunks(mode) moves data only within a block: for every block
\* the (value, original row) pairs in the full slices of the block are the
\* same before and after the call, and the scratch arrays of a block that
\* is reordered hold each chunk of the block once (those of a block that is
\* skipped are not written).  The rows are all different, so equal sets
\* are equal multisets.
C35_WithinBlock ==
    [][call'.op = "swap_chunks"
       => \A b \in 0..(nblocks - 1) :
            /\ PairsIn(sorted', indices', b) = PairsIn(sorted, indices, b)
            /\ \/ ChunksIn(call'.tmp_sorted, call'.tmp_indices, b)
                    = ChunksIn(sorted, indices, b)
               \/ /\ \A k \in BlockSlices(b) :
                        /\ call'.tmp_sorted[k] = Zeros(slicesize)
                        /\ sorted'[k] = sorted[k]
                        /\ indices'[k] = indices[k]]_vars

\* A swap of chunks has moved values between the two slices of a block,
\* next to a last row.
C35_Witness ==
    /\ call.op = "swap_chunks"
    /\ nelementsLR > 0
    /\ Len(sorted) >= 2
    /\ call.tmp_sorted[1] # Zeros(slicesize)
    /\ \E j \in 1..slicesize : \E k \in 1..slicesize :
           /\ indices[1][j] >= slicesize
           /\ indices[2][k] < slicesize

\* The keys of the chunks of the full slices of block b, in the order they
\* have, and the number of positions at which the sorting permutation
\* differs from the identity.
BlockKeys(b, mode) ==
    PySlice(BoundsObj(IndexArrays, mode),
            b * nslicesblock * nchunkslice,
            (b * nslicesblock + Cardinality(BlockSlices(b))) * nchunkslice)

MovedPositions(b, mode) ==
    LET sidx == ArgSort(BlockKeys(b, mode))
    IN  Cardinality({ k \in 1..Len(sidx) : sidx[k] # k - 1 })

\* C36: swap_chunks skips a block exactly when fewer than 5% of the chunk
\* positions of that block would move under the sorting permutation; a
\* block in which 5% or more of the positions differ from the identity is
\* reordered.  A block that is skipped leaves its scratch slices unwritten.
\* swap_chunks halves the number of positions before it compares: a block
\* of 22 chunks of which 2 would move (9%) is skipped.
C36_SkipBelowFivePercent ==
    [][call'.op = "swap_chunks"
       => \A b \in 0..(nblocks - 1) :
            BlockSlices(b) # {}
            => ((\A k \in BlockSlices(b) :
                     call'.tmp_sorted[k] = Zeros(slicesize))
                <=> MovedPositions(b, call'.mode) * 20
                      < Cardinality(BlockSlices(b)) * nchunkslice)]_vars

\* swap('create') and the phases of the level, in the order of the loop.
AllPhases(level) == <<<<"create", "None">>>> \o Phases(level)

RECURSIVE ArraysAfter(_, _)
\* The arrays <<I, T>> after the first k of these phases have run on the
\* index as it is.
ArraysAfter(level, k) ==
    IF k = 0 THEN <<IndexArrays, << >>>>
    ELSE Bind(ArraysAfter(level, k - 1), LAMBDA IT :
           CASE AllPhases(level)[k][1] = "create" -> <<IT[1], create_temps>>
             [] AllPhases(level)[k][1] = "chunks" ->
                    swap_chunks(IT[1], IT[2], AllPhases(level)[k][2])
             [] AllPhases(level)[k][1] = "slices" ->
                    swap_slices(IT[1], IT[2], AllPhases(level)[k][2]))

\* The overlap statistics computed after phase k, and the toverlap of the
\* phase before it (0 before swap('create')).
StatsAfter(level, k) == compute_overlaps(ArraysAfter(level, k)[1].ranges)

LastTover(level, k) ==
    IF k = 1 THEN <<0, 1>> ELSE StatsAfter(level, k - 1).toverlap

\* noverlaps < 4, or less than 1% of the multiplicity entries are not zero,
\* or 0 <= toverlap < 0.001
ThresholdMet(ov) ==
    \/ ov.noverlaps < 4
    \/ 100 * Cardinality({ i \in 1..Len(ov.multiplicity) :
                               ov.multiplicity[i] # 0 })
         < Len(ov.multiplicity)
    \/ (ov.toverlap[1] >= 0 /\ 1000 * ov.toverlap[1] < ov.toverlap[2])

\* (last - tover) / last < 10%, for the fractions last # 0 and tover
BelowTenth(last, tover) ==
    IF last[1] > 0
    THEN 9 * last[1] * tover[2] < 10 * tover[1] * last[2]
    ELSE 9 * last[1] * tover[2] > 10 * tover[1] * last[2]

\* The conditions of C37 as stated, after phase k.
StopsAsStated(level, k) ==
    \/ ThresholdMet(StatsAfter(level, k))
    \/ /\ AllPhases(level)[k][1] = "chunks"
       /\ LastTover(level, k)[1] # 0
       /\ BelowTenth(LastTover(level, k), StatsAfter(level, k).toverlap)

\* The same, the improvement being looked at only when both toverlap are
\* positive.
StopsAfter(level, k) ==
    \/ ThresholdMet(StatsAfter(level, k))
    \/ /\ AllPhases(level)[k][1] = "chunks"
       /\ LastTover(level, k)[1] > 0
       /\ StatsAfter(level, k).toverlap[1] > 0
       /\ BelowTenth(LastTover(level, k), StatsAfter(level, k).toverlap)

\* An optimize that ran phases has just returned.
OptimizeRan ==
    /\ call'.op = "optimize"
    /\ ~call'.skipped
    /\ call'.error = "None"
    /\ call'.log # << >>

\* C37 as stated: after each swap phase, optimize runs no further phase if
\* noverlaps < 4, or the fraction of non-zero multiplicity entries < 1%, or
\* 0 <= toverlap < 0.001, or, for a chunk swap, (last_tover - tover) /
\* last_tover < 10%; if none holds, the next phase of the level is run.
C37_StopsAsStated ==
    [][OptimizeRan
       => \A k \in 1..Len(call'.log) :
            /\ StopsAsStated(call'.level, k) => Len(call'.log) = k
            /\ (~StopsAsStated(call'.level, k)
                  /\ k < Len(AllPhases(call'.level)))
               => Len(call'.log) > k]_vars

\* C37: the same, the improvement of a chunk swap being compared only when
\* last_tover > 0 and tover > 0 (toverlap is -1 when the range of the index
\* is empty).
C37_StopsAfter ==
    [][OptimizeRan
       => \A k \in 1..Len(call'.log) :
            /\ StopsAfter(call'.level, k) => Len(call'.log) = k
            /\ (~StopsAfter(call'.level, k)
                  /\ k < Len(AllPhases(call'.level)))
               => Len(call'.log) > k]_vars

\* An optimize(6) has run swap_chunks(start) and swap_chunks(stop) on an
\* index whose toverlap is -1 throughout, and another has stopped after a
\* swap of chunks that improved too little.
C37_Witness ==
    /\ call.op = "optimize"
    /\ call.level = 6
    /\ Len(call.log) = 3
    /\ last_tover = <<-1, 1>>
    /\ ~call.stop

\* The (value, original row) pairs that the full slices S (values) and X
\* (rows) hold.
FullSlicePairs(S, X) ==
    { <<S[k][j], X[k][j]>> : k \in 1..Len(S), j \in 1..slicesize }

\* C38: optimize never touches the trailing partial slice: for every level
\* and index content, sortedLR, indicesLR, bebounds and nelementsLR are
\* unchanged by optimize, and no element of the last-row slice is moved
\* into a full slice or vice versa: the full slices hold the same (value,
\* row) pairs as before, all of rows below nslices * slicesize.
C38_LastRowUntouched ==
    [][call'.op = "optimize"
       => /\ UNCHANGED <<sortedLR, indicesLR, bebounds, nelementsLR>>
          /\ Len(sorted') = Len(sorted)
          /\ FullSlicePairs(sorted', indices') = FullSlicePairs(sorted, indices)
          /\ \A k \in 1..Len(indices') : \A j \in 1..slicesize :
                 indices'[k][j] < Len(sorted) * slicesize]_vars

\* An optimize(7) has moved chunks of an index that has a last row.
C38_Witness ==
    /\ call.op = "optimize"
    /\ call.level = 7
    /\ nelementsLR > 0
    /\ \E k \in 1..Len(call.log) : call.log[k][3]

\* The number of valid elements of row i (1-based) of the index: slicesize
\* for a full slice, nelementsLR for the last row.
ValidElements(i) == IF i <= Len(sorted) THEN slicesize ELSE nelementsLR

\* C39: after every search (any key, cached or not) on any reachable index
\* state, starts and lengths have exactly nrows entries and, for every
\* slice i, 0 <= starts[i], lengths[i] >= 0 and starts[i] + lengths[i] <=
\* number of valid elements of slice i; the returned total equals the sum
\* of lengths.  The search of a key with lo > hi in the last row leaves a
\* negative length.
C39_StartsLengthsInRange ==
    call.op = "search"
    => /\ Len(starts) = nrows
       /\ Len(lengths) = nrows
       /\ \A i \in 1..nrows :
              /\ 0 <= starts[i]
              /\ lengths[i] >= 0
              /\ starts[i] + lengths[i] <= ValidElements(i)
       /\ call.tlen = SumSeq(lengths)

\* C40: every iteration started over an Array with __iter__ (a plain
\* for-loop) yields all rows 0..nrows-1 in order and then stops, regardless
\* of earlier iterations on the same Array, one that was left before its
\* end included, and during the iteration nrow is the index of the row just
\* returned.  __iter__ begins a loop only if _init is False, and _init is
\* reset only by the StopIteration of next: a loop begun after a break goes
\* on where the loop before it was left.
C40_IterFromStart ==
    (call.op \in { "__iter__", "next" } /\ call.loop = "__iter__")
    => /\ \A k \in 1..Len(call.yielded) : call.yielded[k] = k - 1
       /\ call.stopped => Len(call.yielded) = array.nrows
       /\ (call.op = "next" /\ ~call.stopped)
            => array.nrow = call.yielded[Len(call.yielded)]

=============================================================================
